---- MODULE Spec2Model ----
(***************************************************************************)
(* A model of the dynamic-binding and non-local-exit core of guile-emacs   *)
(* (src/src/eval.c, src/src/data.c).                                       *)
(*                                                                         *)
(* In this code base the binding stack (specpdl) holds only let-binding    *)
(* records.  Unwind-protect cleanups, the undoing of each binding          *)
(* (unbind_once) and the restoring of handlerlist (set_handlerlist) are    *)
(* unwind handlers on Guile's dynamic stack, and catch / condition-case    *)
(* are Guile prompts.  The model keeps both stacks: `specpdl' and          *)
(* `dynstack'.                                                             *)
(***************************************************************************)
EXTENDS Integers, Sequences, FiniteSets, TLC

VARIABLES
    redirect,      \* symbol -> SYMBOL_REDIRECT (sym)
    alias,         \* symbol -> SYMBOL_ALIAS (sym), "" when none
    constant,      \* symbol -> SYMBOL_CONSTANT (sym)
    symval,        \* symbol -> value slot (plain) or forwarded C variable
    specpdl,       \* the entries below specpdl_ptr, bottom first
    specpdl_size,  \* allocated entries
    handlerlist,   \* chain of handlers, innermost first, sentinel last
    dynstack,      \* Guile's dynamic stack: frames, unwind handlers, prompts
    pc,            \* what the evaluator is doing
    target,        \* prompt tag an abort_to_prompt is unwinding to
    uval,          \* value carried by the non-local exit
    result,        \* value last returned by a catch / condition-case
    ncleanups,     \* cleanups registered so far (history)
    ran,           \* cleanup id -> number of times it ran (history)
    ev,            \* what the last step did (history)
    ncalls,        \* calls made by the Lisp program so far (history)
    iv,            \* the running call of indirect_variable
    blv,           \* symbol -> SYMBOL_BLV (sym) when it is Localized
    cells,         \* the conses made for BLVs: (symbol . value)
    buffers,       \* buffer -> local_var_alist, per-buffer slot and flag
    buffer_defaults,   \* the default of the per-buffer slot
    current_buffer,
    found_ok,      \* every set_blv_found so far met its assertion (history)
    funcall,       \* funcall_lambda's locals: syms_left, i, optional, rest
    Vautoload_queue,   \* the records of fsets and provides, newest first
    Vfeatures,     \* the list of features provided
    symbol_function,   \* function symbol -> its definition
    max_lisp_eval_depth,
    lisp_eval_depth,
    when_entered_debugger,
    num_nonmacro_input_events,
    Vdebug_on_error,
    debug_on_quit,
    Vdebug_on_signal,
    Vdebug_ignored_errors,
    signaling      \* the calls of Fsignal that are inside call_debugger

vars == <<redirect, alias, constant, symval, specpdl, specpdl_size,
          handlerlist, dynstack, pc, target, uval, result, ncleanups, ran,
          ev, ncalls, iv, blv, cells, buffers, buffer_defaults,
          current_buffer, found_ok, funcall, Vautoload_queue, Vfeatures,
          symbol_function, max_lisp_eval_depth, lisp_eval_depth,
          when_entered_debugger, num_nonmacro_input_events, Vdebug_on_error,
          debug_on_quit, Vdebug_on_signal, Vdebug_ignored_errors, signaling>>

(* The variables of function calls.                                     *)
cvars == <<funcall>>

(* The variables of autoloading.                                        *)
avars == <<Vautoload_queue, Vfeatures, symbol_function>>

(* The variables of the debugger.                                       *)
dvars == <<max_lisp_eval_depth, lisp_eval_depth, when_entered_debugger,
           num_nonmacro_input_events, Vdebug_on_error, debug_on_quit,
           Vdebug_on_signal, Vdebug_ignored_errors, signaling>>

(* The variables of buffer-local bindings.                              *)
lvars == <<blv, cells, buffers, buffer_defaults, current_buffer, found_ok>>

(* ------------------------------------------------------------------ *)
(* Bounds of the model                                                  *)
(* ------------------------------------------------------------------ *)
MaxCalls == 5        \* calls the Lisp program makes in one run
MaxDepth == 4        \* frames open on the dynamic stack
MaxPdl == 4          \* entries on specpdl, call_debugger's three apart
MaxCleanups == 2     \* cleanups registered in one run
MaxSpecpdlSize == 7  \* the largest max-specpdl-size and specpdl_size
MaxInputs == 1       \* input events read in one run

(* ------------------------------------------------------------------ *)
(* Lisp objects.  Numbers are the naturals; other objects are negative. *)
(* ------------------------------------------------------------------ *)
Qunbound == -1
Qnil == -2
Qt == -3
Qx == -4             \* some object that is not a number
Qkw == -5            \* the keyword symbol :kw as a value
NUMBERP(v) == v >= 0

(* Symbols whose value cells the model follows.                         *)
SymA == "a"
SymB == "b"
SymC == "c"
SymK == "k"                    \* a constant that is not a keyword
SymF == "max-specpdl-size"     \* DEFVAR_INT: forwarded to the C variable
SymP == "mode-name"            \* forwarded to a per-buffer slot, idx > 0
SymQ == "last-command"         \* forwarded to a slot of the keyboard
SymKw == ":kw"                 \* a keyword: constant, its own value
(* The variables call_debugger binds: a DEFVAR_BOOL and two             *)
(* DEFVAR_LISPs.                                                        *)
SymDMC == "debugger-may-continue"
SymIR == "inhibit-redisplay"
SymID == "inhibit-debugger"
Syms == {SymA, SymB, SymC, SymK, SymF, SymP, SymQ, SymKw, SymDMC, SymIR,
         SymID}

Buffers == {"B1", "B2"}
selected_frame == "F1"

(* The C variable max_specpdl_size is the cell SymF forwards to.        *)
max_specpdl_size == symval[SymF]

(* Program constants, scaled down so that the ceiling is within reach:  *)
(* the source has 50, 400 and 10000.                                    *)
InitSpecpdlSize == 1
MinMaxSpecpdlSize == 2
InitMaxSpecpdlSize == 3

(* init_eval_once's max_lisp_eval_depth, and what call_debugger allows  *)
(* above lisp_eval_depth.                                               *)
InitMaxLispEvalDepth == 10000
DebuggerEvalMargin == 40

(* The value of debug-on-error: nil, t (atom) or a list of conditions.  *)
DebugOn(atom, list) == [atom |-> atom, list |-> list]

(* error-conditions of the error symbols signaled here; a symbol       *)
(* without the property has none.                                       *)
ErrorConditions(sym) ==
    CASE sym = "error" -> <<"error">>
      [] sym = "quit" -> <<"quit">>
      [] sym = "arith-error" -> <<"arith-error", "error">>
      [] sym = "wrong-type-argument" -> <<"wrong-type-argument", "error">>
      [] sym = "setting-constant" -> <<"setting-constant", "error">>
      [] sym = "no-catch" -> <<"no-catch", "error">>
      [] sym = "wrong-number-of-arguments" ->
             <<"wrong-number-of-arguments", "error">>
      [] sym = "cyclic-variable-indirection" ->
             <<"cyclic-variable-indirection", "error">>
      [] OTHER -> <<>>

Range(s) == {s[i] : i \in 1..Len(s)}

(* ------------------------------------------------------------------ *)
(* Records                                                              *)
(* ------------------------------------------------------------------ *)
(* struct handler.  tag is the catch tag or a bare condition marker, ch *)
(* the condition list when tag_or_ch is a cons.  cc, form and ci are    *)
(* history: the condition-case the handler belongs to, its clause list  *)
(* and its clause's place in the declared order.                        *)
Handler(type, tag, ch, ptag, var, body, cc, form, ci) ==
    [type |-> type, tag |-> tag, ch |-> ch, ptag |-> ptag, var |-> var,
     body |-> body, cc |-> cc, form |-> form, ci |-> ci]

(* An object passed by a non-local exit: a thrown value has car         *)
(* "value"; an error is (car . data) with data (tag val).  org is       *)
(* history: what the evaluator was doing when the exit was started.     *)
Obj(car, tag, val, org) == [car |-> car, tag |-> tag, val |-> val, org |-> org]
NoObj == Obj("", "", Qnil, "")

(* The state an extent was entered in (history).                        *)
(* The symbols whose function cells the model follows; 0 is the        *)
(* autoload object each holds at first, 1 and 2 are definitions.        *)
FnSyms == {"f", "g"}
AutoloadObject == 0

(* Vautoload_queue: the records consed onto its front, newest first,    *)
(* and what they were consed onto, which is nil or t.  A record is      *)
(* (FUN . ODEF) or, with fun = "0", (0 . OFEATURES).                    *)
Queue(recs, tail) == [recs |-> recs, tail |-> tail]
QueueNil == Queue(<<>>, "nil")
QueueT == Queue(<<>>, "t")

Snap ==
    [idx |-> Len(specpdl), vals |-> symval, hl |-> handlerlist,
     queue |-> Vautoload_queue, features |-> Vfeatures,
     fns |-> symbol_function]
NoSnap ==
    [idx |-> -1, vals |-> [s \in Syms |-> Qnil], hl |-> <<>>,
     queue |-> QueueNil, features |-> 0, fns |-> [s \in FnSyms |-> 0]]

(* An entry of the dynamic stack.                                       *)
Entry(k, fn, explicit, hl, ptag, gi, snap, chain) ==
    [k |-> k, fn |-> fn, explicit |-> explicit, hl |-> hl, ptag |-> ptag,
     gi |-> gi, snap |-> snap, chain |-> chain]

Frame(kind, snap, chain) ==
    Entry("frame", kind, FALSE, <<>>, 0, 0, snap, chain)
Winder(fn, explicit, hl, ptag, gi) ==
    Entry("winder", fn, explicit, hl, ptag, gi, NoSnap, FALSE)
Prompt(hkind, c, snap) ==
    Entry("prompt", hkind, FALSE, <<c>>, c.ptag, 0, snap, FALSE)

Ev(op, a, b, n, m, snap, hl, sigs) ==
    [op |-> op, a |-> a, b |-> b, n |-> n, m |-> m, snap |-> snap, hl |-> hl,
     sigs |-> sigs]
NoEv == Ev("none", "", "", 0, 0, NoSnap, <<>>, <<>>)

(* union specbinding                                                    *)
Binding(kind, symbol, old_value, where) ==
    [kind |-> kind, symbol |-> symbol, old_value |-> old_value,
     where |-> where]

SPECPDL_INDEX == Len(specpdl)

(* struct Lisp_Buffer_Local_Value.  fwd says that the value is in the   *)
(* C variable the symbol forwarded to; where is a buffer, a frame or    *)
(* "nil"; the cells are places in `cells'.                              *)
NoBlv ==
    [fwd |-> FALSE, where |-> "nil", frame_local |-> FALSE,
     local_if_set |-> FALSE, found |-> FALSE, defcell |-> 0, valcell |-> 0]

(* The value cells an operation works on.                               *)
Store(val, red) ==
    [val |-> val, red |-> red, blv |-> blv, cells |-> cells,
     buf |-> buffers, defaults |-> buffer_defaults, cur |-> current_buffer,
     found_ok |-> found_ok]

(* ------------------------------------------------------------------ *)
(* data.c: variable aliases                                             *)
(* ------------------------------------------------------------------ *)
(* A call of indirect_variable: its locals, where it is (pc), and as    *)
(* history its argument (arg) and the passes of the loop that went      *)
(* round (n).                                                           *)
IvIdle ==
    [pc |-> "idle", symbol |-> "", hare |-> "", tortoise |-> "", arg |-> "",
     n |-> 0]
IvStart(symbol) ==
    [pc |-> "loop", symbol |-> symbol, hare |-> symbol, tortoise |-> symbol,
     arg |-> symbol, n |-> 0]

(* The loop signaling with the symbol the hare stands on.               *)
IvStepSignalsHare(s) ==
    IF redirect[s.hare] # "VARALIAS"
    THEN [s EXCEPT !.pc = "done"]
    ELSE LET h1 == alias[s.hare] IN
         IF redirect[h1] # "VARALIAS"
         THEN [s EXCEPT !.pc = "done", !.hare = h1]
         ELSE LET h2 == alias[h1]
                  t2 == alias[s.tortoise]
              IN [s EXCEPT !.pc = IF h2 = t2 THEN "cyclic" ELSE "loop",
                           !.symbol = IF h2 = t2 THEN h2 ELSE s.symbol,
                           !.hare = h2, !.tortoise = t2, !.n = s.n + 1]

(* One pass of indirect_variable's while loop, starting at its test.    *)
(* pc "done": hare is returned; "cyclic": cyclic-variable-indirection   *)
(* is signaled with s.symbol.                                           *)
IvStep(s) ==
    IF redirect[s.hare] # "VARALIAS"
    THEN [s EXCEPT !.pc = "done"]
    ELSE LET h1 == alias[s.hare] IN
         IF redirect[h1] # "VARALIAS"
         THEN [s EXCEPT !.pc = "done", !.hare = h1]
         ELSE LET h2 == alias[h1]
                  t2 == alias[s.tortoise]
              IN [s EXCEPT !.pc = IF h2 = t2 THEN "cyclic" ELSE "loop",
                           !.hare = h2, !.tortoise = t2, !.n = s.n + 1]

RECURSIVE IvRun(_)
IvRun(s) == IF s.pc = "loop" THEN IvRun(IvStep(s)) ELSE s

indirect_variable(symbol) == IvRun(IvStart(symbol))

(* Fkeywordp taking no symbol for a keyword.                            *)
Fkeywordp_never(symbol) == FALSE

(* ------------------------------------------------------------------ *)
(* data.c: reading and writing value cells.  Each operation returns the *)
(* error it signals ("" when none) and the store it leaves.             *)
(* ------------------------------------------------------------------ *)
Fkeywordp(symbol) == symbol = SymKw

(* The kind of C location a forwarded symbol forwards to.               *)
XFWDTYPE(sym) ==
    CASE sym = SymF -> "Lisp_Fwd_Int"
      [] sym = SymP -> "Lisp_Fwd_Buffer_Obj"
      [] sym = SymQ -> "Lisp_Fwd_Kboard_Obj"
      [] sym = SymDMC -> "Lisp_Fwd_Bool"
      [] sym \in {SymIR, SymID} -> "Lisp_Fwd_Obj"
      [] OTHER -> ""

BUFFER_OBJFWDP(sym) == XFWDTYPE(sym) = "Lisp_Fwd_Buffer_Obj"
(* KBOARD_OBJFWDP taking no forward for a keyboard slot.                *)
KBOARD_OBJFWDP_never(sym) == FALSE

KBOARD_OBJFWDP(sym) == XFWDTYPE(sym) = "Lisp_Fwd_Kboard_Obj"

(* Conses live in st.cells and are known by their place there, so that  *)
(* EQ on conses is equality of places.  0 is nil.                       *)
Fcons(st, car, cdr) ==
    [st EXCEPT !.cells = Append(@, [car |-> car, cdr |-> cdr])]

(* The first element of the alist whose car is the symbol, or nil.      *)
Fassq(st, sym, list) ==
    LET m == {i \in 1..Len(list) : st.cells[list[i]].car = sym}
    IN IF m = {} THEN 0 ELSE list[CHOOSE i \in m : \A j \in m : i <= j]

Fdelq(elt, list) == SelectSeq(list, LAMBDA c : c # elt)

blv_value(st, sym) == st.cells[st.blv[sym].valcell].cdr

set_blv_value(st, sym, val) ==
    [st EXCEPT !.cells[st.blv[sym].valcell].cdr = val]

(* set_blv_found storing the opposite flag.                             *)
set_blv_found_negated(st, sym, found) ==
    [st EXCEPT !.blv[sym].found = ~found]

(* set_blv_found: found_ok records whether its assertion held.          *)
set_blv_found(st, sym, found) ==
    [st EXCEPT !.blv[sym].found = found,
               !.found_ok = @ /\ (found = (st.blv[sym].defcell
                                            # st.blv[sym].valcell))]

(* PER_BUFFER_VALUE_P finding no local flag set.                        *)
PER_BUFFER_VALUE_P_clear(st, b) == FALSE

PER_BUFFER_VALUE_P(st, b) == st.buf[b].local_flags

do_symval_forwarding(st, sym) ==
    CASE XFWDTYPE(sym) = "Lisp_Fwd_Buffer_Obj" -> st.buf[st.cur].slot
      [] OTHER -> st.val[sym]

(* buf is "" for a null pointer.  The per-buffer slot has no predicate. *)
store_symval_forwarding(st, sym, newval, buf) ==
    CASE XFWDTYPE(sym) = "Lisp_Fwd_Int" ->
           IF ~NUMBERP(newval)
           THEN [err |-> "wrong-type-argument", st |-> st]
           ELSE [err |-> "", st |-> [st EXCEPT !.val[sym] = newval]]
      [] XFWDTYPE(sym) = "Lisp_Fwd_Bool" ->
           [err |-> "",
            st |-> [st EXCEPT !.val[sym] = IF newval = Qnil THEN Qnil ELSE Qt]]
      [] XFWDTYPE(sym) = "Lisp_Fwd_Buffer_Obj" ->
           LET b == IF buf = "" THEN st.cur ELSE buf
           IN [err |-> "", st |-> [st EXCEPT !.buf[b].slot = newval]]
      [] OTHER -> [err |-> "", st |-> [st EXCEPT !.val[sym] = newval]]

(* No frame parameter is named after a variable of Syms.                *)
swap_in_symval_forwarding(st, sym) ==
    LET b == st.blv[sym]
        stale == \/ b.where = "nil"
                 \/ IF b.frame_local THEN selected_frame # b.where
                                     ELSE st.cur # b.where
        st1 == IF b.fwd
               THEN set_blv_value(st, sym, do_symval_forwarding(st, sym))
               ELSE st
        tem1 == IF b.frame_local
                THEN 0
                ELSE Fassq(st1, sym, st1.buf[st1.cur].local_var_alist)
        st2 == [st1 EXCEPT
                  !.blv[sym].where = IF b.frame_local THEN selected_frame
                                                      ELSE st1.cur,
                  !.blv[sym].found = tem1 # 0,
                  !.blv[sym].valcell = IF tem1 # 0 THEN tem1 ELSE b.defcell]
    IN IF ~stale
       THEN [err |-> "", st |-> st]
       ELSE IF b.fwd
            THEN store_symval_forwarding(st2, sym, blv_value(st2, sym), "")
            ELSE [err |-> "", st |-> st2]

(* find_symbol_value giving the buffer a binding of its own, as a set   *)
(* of an automatically local variable does.                             *)
find_symbol_value_setting(st, symbol) ==
    LET sym == indirect_variable(symbol).hare
        c == Fcons(st, sym, Qt)
        st1 == IF st.red[sym] = "LOCALIZED"
               THEN [c EXCEPT !.buf[st.cur].local_var_alist =
                                  <<Len(c.cells)>> \o @,
                              !.blv[sym].where = st.cur,
                              !.blv[sym].found = TRUE,
                              !.blv[sym].valcell = Len(c.cells)]
               ELSE st
    IN [err |-> "", val |-> Qt, st |-> st1]

(* xsignal1 (Qvoid_variable, symbol) when the value found is unbound.   *)
void_variable(v) ==
    IF v.err = "" /\ v.val = Qunbound
    THEN [v EXCEPT !.err = "void-variable"]
    ELSE v

(* The value read once s, swap_in_symval_forwarding's outcome, is here. *)
find_symbol_value_localized(sym, s) ==
    IF s.err # ""
    THEN [err |-> s.err, val |-> Qunbound, st |-> s.st]
    ELSE [err |-> "",
          val |-> IF s.st.blv[sym].fwd
                  THEN do_symval_forwarding(s.st, sym)
                  ELSE blv_value(s.st, sym),
          st |-> s.st]

find_symbol_value(st, symbol) ==
    LET r == indirect_variable(symbol)
        sym == r.hare
    IN IF r.pc = "cyclic"
       THEN [err |-> "cyclic-variable-indirection", val |-> Qunbound,
             st |-> st]
       ELSE CASE st.red[sym] = "PLAINVAL" ->
                   [err |-> "", val |-> st.val[sym], st |-> st]
              [] st.red[sym] = "LOCALIZED" ->
                   find_symbol_value_localized(
                       sym, swap_in_symval_forwarding(st, sym))
              [] OTHER ->
                   [err |-> "", val |-> do_symval_forwarding(st, sym),
                    st |-> st]

Fsymbol_value(st, symbol) == void_variable(find_symbol_value(st, symbol))

(* The answer once s, swap_in_symval_forwarding's outcome, is here.     *)
Fboundp_localized(sym, s) ==
    IF s.err # ""
    THEN [err |-> s.err, val |-> FALSE, st |-> s.st]
    ELSE [err |-> "", val |-> blv_value(s.st, sym) # Qunbound, st |-> s.st]

Fboundp(st, symbol) ==
    LET r == indirect_variable(symbol)
        sym == r.hare
    IN IF r.pc = "cyclic"
       THEN [err |-> "cyclic-variable-indirection", val |-> FALSE, st |-> st]
       ELSE CASE st.red[sym] = "PLAINVAL" ->
                   [err |-> "", val |-> st.val[sym] # Qunbound, st |-> st]
              [] st.red[sym] = "LOCALIZED" /\ ~st.blv[sym].fwd ->
                   Fboundp_localized(sym, swap_in_symval_forwarding(st, sym))
              [] OTHER -> [err |-> "", val |-> TRUE, st |-> st]

(* let_shadows_buffer_binding_p taking a let-binding made in any buffer *)
(* for one made in the current buffer.                                  *)
let_shadows_buffer_binding_p_any_buffer(st, symbol) ==
    \E i \in 1..Len(specpdl) :
        /\ specpdl[i].kind # "SPECPDL_LET"
        /\ specpdl[i].symbol = symbol

(* eval.c: a let-binding of the symbol made in the current buffer is    *)
(* on specpdl.                                                          *)
let_shadows_buffer_binding_p(st, symbol) ==
    \E i \in 1..Len(specpdl) :
        /\ specpdl[i].kind # "SPECPDL_LET"
        /\ specpdl[i].symbol = symbol
        /\ specpdl[i].where = st.cur

(* seeing_default paying no attention to bindflag.                      *)
seeing_default_unbound(st, sym, bindflag) ==
    \/ ~st.blv[sym].local_if_set
    \/ let_shadows_buffer_binding_p(st, sym)

(* set_internal's test for a buffer without a binding of its own: the   *)
(* default value is what is seen and set, no binding is made for the    *)
(* buffer.                                                              *)
seeing_default(st, sym, bindflag) ==
    \/ bindflag
    \/ ~st.blv[sym].local_if_set
    \/ let_shadows_buffer_binding_p(st, sym)

(* set_internal on a Localized symbol; where is never nil here.         *)
set_internal_localized(st, sym, newval, where, bindflag) ==
    LET b == st.blv[sym]
        reload == b.where # where \/ b.valcell = b.defcell
        st1 == IF b.fwd
               THEN set_blv_value(st, sym, do_symval_forwarding(st, sym))
               ELSE st
        tem1 == IF b.frame_local
                THEN 0
                ELSE Fassq(st1, sym, st1.buf[where].local_var_alist)
        default == seeing_default(st1, sym, bindflag)
        fresh == Len(st1.cells) + 1
        st2 == IF tem1 # 0
               THEN [st1 EXCEPT !.blv[sym].where = where,
                                !.blv[sym].found = TRUE,
                                !.blv[sym].valcell = tem1]
               ELSE IF default
               THEN [st1 EXCEPT !.blv[sym].where = where,
                                !.blv[sym].found = FALSE,
                                !.blv[sym].valcell = b.defcell]
               ELSE [Fcons(st1, sym, st1.cells[b.defcell].cdr) EXCEPT
                       !.buf[where].local_var_alist = <<fresh>> \o @,
                       !.blv[sym].where = where,
                       !.blv[sym].found = TRUE,
                       !.blv[sym].valcell = fresh]
        st3 == set_blv_value(IF reload THEN st2 ELSE st, sym, newval)
    IN IF ~b.fwd
       THEN [err |-> "", st |-> st3]
       ELSE IF newval = Qunbound
            THEN [err |-> "", st |-> [st3 EXCEPT !.blv[sym].fwd = FALSE]]
            ELSE store_symval_forwarding(st3, sym, newval,
                                         IF where \in Buffers THEN where
                                                              ELSE st.cur)

(* A constant may be set only to v, the value it has, and only when it  *)
(* is a keyword.                                                        *)
setting_constant(v, newval) ==
    IF v.err # ""
    THEN [err |-> v.err, st |-> v.st]
    ELSE IF newval # v.val
         THEN [err |-> "setting-constant", st |-> v.st]
         ELSE [err |-> "", st |-> v.st]

(* where is "nil" for the current buffer or frame.                      *)
set_internal(st, symbol, newval, where, bindflag) ==
    IF constant[symbol]
    THEN IF ~Fkeywordp(symbol)
         THEN [err |-> "setting-constant", st |-> st]
         ELSE setting_constant(Fsymbol_value(st, symbol), newval)
    ELSE LET r == indirect_variable(symbol)
             sym == r.hare
             buf == IF where \in Buffers THEN where ELSE st.cur
             st1 == IF /\ BUFFER_OBJFWDP(sym)
                       /\ ~bindflag
                       /\ ~let_shadows_buffer_binding_p(st, sym)
                    THEN [st EXCEPT !.buf[buf].local_flags = TRUE]
                    ELSE st
         IN IF r.pc = "cyclic"
            THEN [err |-> "cyclic-variable-indirection", st |-> st]
            ELSE CASE st.red[sym] = "PLAINVAL" ->
                        [err |-> "", st |-> [st EXCEPT !.val[sym] = newval]]
                   [] st.red[sym] = "LOCALIZED" ->
                        set_internal_localized(
                            st, sym, newval,
                            IF where # "nil" THEN where
                            ELSE IF st.blv[sym].frame_local
                                 THEN selected_frame
                                 ELSE st.cur,
                            bindflag)
                   [] OTHER ->
                        IF newval = Qunbound
                        THEN [err |-> "",
                              st |-> [st1 EXCEPT !.red[sym] = "PLAINVAL",
                                                 !.val[sym] = newval]]
                        ELSE store_symval_forwarding(st1, sym, newval, buf)

Fset(st, symbol, newval) == set_internal(st, symbol, newval, "nil", FALSE)

default_value(st, symbol) ==
    LET r == indirect_variable(symbol)
        sym == r.hare
    IN IF r.pc = "cyclic"
       THEN [err |-> "cyclic-variable-indirection", val |-> Qunbound]
       ELSE CASE st.red[sym] = "PLAINVAL" ->
                   [err |-> "", val |-> st.val[sym]]
              [] st.red[sym] = "LOCALIZED" ->
                   [err |-> "",
                    val |-> IF /\ st.blv[sym].fwd
                               /\ st.blv[sym].valcell = st.blv[sym].defcell
                            THEN do_symval_forwarding(st, sym)
                            ELSE st.cells[st.blv[sym].defcell].cdr]
              [] BUFFER_OBJFWDP(sym) -> [err |-> "", val |-> st.defaults]
              [] OTHER -> [err |-> "", val |-> do_symval_forwarding(st, sym)]

Fdefault_value(st, symbol) == void_variable(default_value(st, symbol))

Fset_default(st, symbol, value) ==
    IF constant[symbol]
    THEN IF ~Fkeywordp(symbol)
         THEN [err |-> "setting-constant", st |-> st]
         ELSE setting_constant([st |-> st] @@ Fdefault_value(st, symbol),
                               value)
    ELSE LET r == indirect_variable(symbol)
             sym == r.hare
             st1 == [st EXCEPT !.cells[st.blv[sym].defcell].cdr = value]
         IN IF r.pc = "cyclic"
            THEN [err |-> "cyclic-variable-indirection", st |-> st]
            ELSE CASE st.red[sym] = "LOCALIZED" ->
                        IF /\ st.blv[sym].fwd
                           /\ st.blv[sym].defcell = st.blv[sym].valcell
                        THEN store_symval_forwarding(st1, sym, value, "")
                        ELSE [err |-> "", st |-> st1]
                   [] st.red[sym] = "FORWARDED" /\ BUFFER_OBJFWDP(sym) ->
                        [err |-> "",
                         st |-> [st EXCEPT
                                   !.defaults = value,
                                   !.buf = [b \in Buffers |->
                                              IF PER_BUFFER_VALUE_P(st, b)
                                              THEN st.buf[b]
                                              ELSE [st.buf[b] EXCEPT
                                                      !.slot = value]]]]
                   [] OTHER -> Fset(st, symbol, value)

(* ------------------------------------------------------------------ *)
(* data.c: creating and removing buffer-local variables                 *)
(* ------------------------------------------------------------------ *)
(* make_blv: the BLV is known by its default cell, which is new.        *)
make_blv(st, sym, forwarded, value) ==
    LET tem == Len(st.cells) + 1
        st1 == Fcons(st, sym, IF forwarded THEN do_symval_forwarding(st, sym)
                                           ELSE value)
        st2 == [st1 EXCEPT !.blv[sym] = [fwd |-> forwarded, where |-> "nil",
                                         frame_local |-> FALSE,
                                         local_if_set |-> FALSE,
                                         found |-> FALSE,
                                         defcell |-> tem, valcell |-> tem]]
    IN set_blv_found(st2, sym, FALSE)

Fmake_variable_buffer_local(st, variable) ==
    LET r == indirect_variable(variable)
        sym == r.hare
        red == st.red[sym]
        value == IF st.val[sym] = Qunbound THEN Qnil ELSE st.val[sym]
        st1 == IF red = "LOCALIZED"
               THEN st
               ELSE [make_blv(st, sym, red = "FORWARDED", value) EXCEPT
                       !.red[sym] = "LOCALIZED"]
    IN IF r.pc = "cyclic"
       THEN [err |-> "cyclic-variable-indirection", st |-> st]
       ELSE IF red = "LOCALIZED" /\ st.blv[sym].frame_local
       THEN [err |-> "error", st |-> st]
       ELSE IF red = "FORWARDED" /\ KBOARD_OBJFWDP(sym)
       THEN [err |-> "error", st |-> st]
       ELSE IF red = "FORWARDED" /\ BUFFER_OBJFWDP(sym)
       THEN [err |-> "", st |-> st]
       ELSE IF constant[sym]
       THEN [err |-> "error", st |-> st]
       ELSE [err |-> "", st |-> [st1 EXCEPT !.blv[sym].local_if_set = TRUE]]

(* Fmake_local_variable setting the variable to value, the value it    *)
(* has.                                                                 *)
make_local_variable_set_value(value, variable) ==
    IF value.err # ""
    THEN [err |-> value.err, st |-> value.st]
    ELSE Fset(value.st, variable, value.val)

(* Fmake_local_variable setting a variable that is local when set to    *)
(* the value it has; bound is Fboundp's outcome.                        *)
make_local_variable_set(bound, variable) ==
    IF bound.err # ""
    THEN [err |-> bound.err, st |-> bound.st]
    ELSE IF ~bound.val
    THEN Fset(bound.st, variable, Qunbound)
    ELSE make_local_variable_set_value(Fsymbol_value(bound.st, variable),
                                       variable)

(* Fmake_local_variable loading the binding of a forwarded variable.    *)
make_local_variable_load(st, sym) ==
    IF st.blv[sym].fwd
    THEN swap_in_symval_forwarding(st, sym)
    ELSE [err |-> "", st |-> st]

(* Fmake_local_variable giving the current buffer a cell of its own;    *)
(* v is find_symbol_value's outcome.                                    *)
make_local_variable_cons(v, sym) ==
    LET fresh == Len(v.st.cells) + 1
        st2 == [Fcons(v.st, sym, v.st.cells[v.st.blv[sym].defcell].cdr)
                  EXCEPT !.buf[v.st.cur].local_var_alist = <<fresh>> \o @]
    IN IF v.err # ""
       THEN [err |-> v.err, st |-> v.st]
       ELSE make_local_variable_load(
                set_blv_found(
                    IF v.st.cur = v.st.blv[sym].where
                    THEN [st2 EXCEPT !.blv[sym].where = "nil"]
                    ELSE st2,
                    sym, FALSE),
                sym)

(* Fmake_local_variable once the symbol has a BLV.                      *)
make_local_variable_own(st, sym) ==
    IF Fassq(st, sym, st.buf[st.cur].local_var_alist) # 0
    THEN make_local_variable_load(st, sym)
    ELSE make_local_variable_cons(find_symbol_value(st, sym), sym)

(* Fmake_local_variable from the test of local_if_set on; blv0 says     *)
(* that the symbol had a BLV when the function was called.              *)
make_local_variable_1(st, variable, sym, blv0) ==
    IF IF blv0 THEN st.blv[sym].local_if_set
               ELSE st.red[sym] = "FORWARDED" /\ BUFFER_OBJFWDP(sym)
    THEN make_local_variable_set(Fboundp(st, variable), variable)
    ELSE make_local_variable_own(
             IF blv0
             THEN st
             ELSE [make_blv(st, sym, st.red[sym] = "FORWARDED", st.val[sym])
                     EXCEPT !.red[sym] = "LOCALIZED"],
             sym)

Fmake_local_variable(st, variable) ==
    LET r == indirect_variable(variable)
        sym == r.hare
        red == st.red[sym]
    IN IF r.pc = "cyclic"
       THEN [err |-> "cyclic-variable-indirection", st |-> st]
       ELSE IF red = "LOCALIZED" /\ st.blv[sym].frame_local
       THEN [err |-> "error", st |-> st]
       ELSE IF red = "FORWARDED" /\ KBOARD_OBJFWDP(sym)
       THEN [err |-> "error", st |-> st]
       ELSE IF constant[sym]
       THEN [err |-> "error", st |-> st]
       ELSE make_local_variable_1(st, variable, sym, red = "LOCALIZED")

(* Fkill_local_variable making the variable Plain again with its        *)
(* default value.                                                       *)
Fkill_local_variable_plain(st, variable) ==
    LET sym == indirect_variable(variable).hare
    IN [err |-> "",
        st |-> IF st.red[sym] = "LOCALIZED"
               THEN [st EXCEPT !.red[sym] = "PLAINVAL",
                               !.val[sym] = st.cells[st.blv[sym].defcell].cdr]
               ELSE st]

(* An outcome without its value.                                        *)
discard_value(v) == [err |-> v.err, st |-> v.st]

Fkill_local_variable(st, variable) ==
    LET r == indirect_variable(variable)
        sym == r.hare
        red == st.red[sym]
        tem == Fassq(st, sym, st.buf[st.cur].local_var_alist)
        st1 == IF tem # 0
               THEN [st EXCEPT !.buf[st.cur].local_var_alist = Fdelq(tem, @)]
               ELSE st
    IN IF r.pc = "cyclic"
       THEN [err |-> "cyclic-variable-indirection", st |-> st]
       ELSE CASE red = "PLAINVAL" -> [err |-> "", st |-> st]
              [] red = "FORWARDED" ->
                   IF BUFFER_OBJFWDP(sym)
                   THEN [err |-> "",
                         st |-> [st EXCEPT
                                   !.buf[st.cur].local_flags = FALSE,
                                   !.buf[st.cur].slot = st.defaults]]
                   ELSE [err |-> "", st |-> st]
              [] st.blv[sym].frame_local -> [err |-> "", st |-> st]
              [] OTHER ->
                   IF st.cur = st.blv[sym].where
                   THEN discard_value(
                            find_symbol_value(
                                [st1 EXCEPT !.blv[sym].where = "nil",
                                            !.blv[sym].found = FALSE],
                                sym))
                   ELSE [err |-> "", st |-> st1]

Fmake_variable_frame_local(st, variable) ==
    LET r == indirect_variable(variable)
        sym == r.hare
        red == st.red[sym]
        value == IF st.val[sym] = Qunbound THEN Qnil ELSE st.val[sym]
        st1 == [make_blv(st, sym, red = "FORWARDED", value) EXCEPT
                  !.blv[sym].frame_local = TRUE,
                  !.red[sym] = "LOCALIZED"]
    IN IF r.pc = "cyclic"
       THEN [err |-> "cyclic-variable-indirection", st |-> st]
       ELSE IF red = "LOCALIZED"
       THEN [err |-> IF st.blv[sym].frame_local THEN "" ELSE "error",
             st |-> st]
       ELSE IF red = "FORWARDED" /\ (KBOARD_OBJFWDP(sym) \/ BUFFER_OBJFWDP(sym))
       THEN [err |-> "error", st |-> st]
       ELSE IF constant[sym]
       THEN [err |-> "error", st |-> st]
       ELSE [err |-> "", st |-> st1]

(* Flocal_variable_p finding a local binding in every buffer.           *)
Flocal_variable_p_always(st, variable, buffer) == TRUE

(* buffer is "nil" for the current buffer.                              *)
Flocal_variable_p(st, variable, buffer) ==
    LET buf == IF buffer = "nil" THEN st.cur ELSE buffer
        r == indirect_variable(variable)
        sym == r.hare
    IN /\ r.pc # "cyclic"
       /\ CASE st.red[sym] = "PLAINVAL" -> FALSE
            [] st.red[sym] = "LOCALIZED" ->
                 IF st.blv[sym].where = buf
                 THEN st.blv[sym].found
                 ELSE Fassq(st, sym, st.buf[buf].local_var_alist) # 0
            [] OTHER -> BUFFER_OBJFWDP(sym) /\ PER_BUFFER_VALUE_P(st, buf)

(* ------------------------------------------------------------------ *)
(* eval.c: handlers, throw and signal                                   *)
(* ------------------------------------------------------------------ *)
Min(S) == CHOOSE x \in S : \A y \in S : x <= y

(* Error objects as Lisp values.  The names a signal can carry as its   *)
(* error symbol and as the head of its data, each a symbol or string    *)
(* object; IndexOf gives the object's identity.                         *)
ErrorSymbols ==
    << "error", "quit", "arith-error", "wrong-type-argument",
       "setting-constant", "no-catch", "cyclic-variable-indirection",
       "wrong-number-of-arguments", "my-signal" >>

DataNames ==
    << "", "binding-depth", "cleanup", "tag1", "top-level", "nil", "error",
       SymA, SymB, SymC, SymK, SymF, SymP, SymQ, SymKw >>

IndexOf(seq, x) == CHOOSE i \in 1..Len(seq) : seq[i] = x

(* The data list of an error object: below -100, apart from every       *)
(* symbol and number.                                                   *)
DataValue(e) == -(100 + 32 * IndexOf(DataNames, e.tag) + (e.val + 8))

(* Fcons (error_symbol, data): below -2000, with its accessors.        *)
ErrorCons(error_symbol, data) ==
    -(1000 + 1000 * IndexOf(ErrorSymbols, error_symbol) + (-data - 100))

ErrorConsP(v) == v <= -2000 /\ v >= -100000
ErrorCar(v) == ErrorSymbols[(-v - 1000) \div 1000]
ErrorCdr(v) == -(100 + ((-v - 1000) % 1000))

(* The value Fsignal hands to the handler it unwinds to:                *)
(* NILP (error_symbol) ? data : Fcons (error_symbol, data).             *)
HandlerValue(e) ==
    IF e.car = "nil" THEN DataValue(e) ELSE ErrorCons(e.car, DataValue(e))

(* real_error_symbol: for a nil error symbol, as with memory-full, the  *)
(* car of the data.                                                     *)
real_error_symbol(e) == IF e.car = "nil" THEN e.tag ELSE e.car

(* Lists as Lisp values: nil, or a cons below -100000 with its car and  *)
(* cdr.  The elements are the objects from -5 to 9.                     *)
ListCons(car, cdr) ==
    -(100000 + (car + 6) + 16 * (IF cdr = Qnil THEN 0 ELSE -cdr - 100000))

ListConsP(v) == v < -100000

ListCar(v) == ((-v - 100000) % 16) - 6

ListCdr(v) ==
    IF (-v - 100000) \div 16 = 0
    THEN Qnil
    ELSE -(100000 + (-v - 100000) \div 16)

(* Flist (nargs, args)                                                  *)
RECURSIVE Flist(_, _)
Flist(nargs, args) ==
    IF nargs = 0
    THEN Qnil
    ELSE ListCons(Head(args), Flist(nargs - 1, Tail(args)))

make_catch_handler(tag, ptag) ==
    Handler("CATCHER", tag, <<>>, ptag, "nil", "", 0, 0, 0)

make_condition_handler(tag, ch, ptag) ==
    Handler("CONDITION_CASE", tag, ch, ptag, "nil", "", 0, 0, 0)

(* init_eval: handlerlist_sentinel = make_catch_handler (Qunbound)      *)
handlerlist_sentinel == make_catch_handler("unbound", 0)

(* What a call that does not return does next.  sigs is history: the    *)
(* error objects handed to Fsignal, first one first.                    *)
Outcome(p, t, v) == [pc |-> p, target |-> t, uval |-> v, sigs |-> <<>>]

unwind_to_catch(catch, value) == Outcome("unwind", catch.ptag, value)

(* find_handler_clause looking a bare marker up in the error's          *)
(* conditions like a condition name.                                    *)
find_handler_clause_named(h, conditions) ==
    \/ h.ch = <<>> /\ h.tag \in Range(conditions)
    \/ \E i \in 1..Len(h.ch) : h.ch[i] \in Range(conditions)

(* Non-nil when the handler's conditions apply: h.tag holds a bare t or *)
(* error marker, h.ch a list of condition names.                        *)
find_handler_clause(h, conditions) ==
    \/ h.ch = <<>> /\ h.tag \in {"t", "error"}
    \/ \E i \in 1..Len(h.ch) : h.ch[i] \in Range(conditions)

(* Fsignal handing the error to the outermost handler that applies.    *)
FsignalOutermost(hl, e) ==
    LET conditions == ErrorConditions(real_error_symbol(e))
        m == {i \in 1..Len(hl) : /\ hl[i].type = "CONDITION_CASE"
                                 /\ find_handler_clause(hl[i], conditions)}
        o == IF m # {}
             THEN unwind_to_catch(hl[CHOOSE i \in m : \A j \in m : j <= i], e)
             ELSE IF Head(hl) # handlerlist_sentinel
                  THEN Outcome("diverge", 0, e)
                  ELSE Outcome("fatal", 0, e)
    IN [o EXCEPT !.sigs = <<e>> \o @]

(* The C variable Vinhibit_debugger is the cell SymID forwards to.      *)
Vinhibit_debugger == symval[SymID]

(* wants_debugger: list is nil, some other atom, or a list of           *)
(* conditions.                                                          *)
wants_debugger(list, conditions) ==
    CASE list.atom = "nil" -> FALSE
      [] list.atom # "" -> TRUE
      [] OTHER -> \E i \in 1..Len(conditions) :
                     conditions[i] \in Range(list.list)

(* syms_of_data: the error-message property of the error symbols.       *)
ErrorMessage(sym) ==
    CASE sym = "error" -> "error"
      [] sym = "quit" -> "Quit"
      [] sym = "arith-error" -> "Arithmetic error"
      [] sym = "wrong-type-argument" -> "Wrong type argument"
      [] sym = "setting-constant" -> "Attempt to set a constant symbol"
      [] sym = "no-catch" -> "No catch for tag"
      [] OTHER -> "peculiar error"

(* fast_string_match (regexp, Ferror_message_string (data)) >= 0.  The  *)
(* regexps of debug-ignored-errors taken here are message texts with no *)
(* special character, anchored at both ends; the message of an error    *)
(* without data is the error-message property of its symbol.            *)
fast_string_match(regexp, e) == regexp = ErrorMessage(real_error_symbol(e))

(* skip_debugger skipping on condition names alone.                     *)
skip_debugger_conditions_only(conditions, e) ==
    \E i \in 1..Len(Vdebug_ignored_errors) :
       /\ ~Vdebug_ignored_errors[i].stringp
       /\ Vdebug_ignored_errors[i].x \in Range(conditions)

(* skip_debugger: an element of debug-ignored-errors is a regexp, tried *)
(* on the error message, or a condition name.                           *)
skip_debugger(conditions, e) ==
    \E i \in 1..Len(Vdebug_ignored_errors) :
       IF Vdebug_ignored_errors[i].stringp
       THEN fast_string_match(Vdebug_ignored_errors[i].x, e)
       ELSE Vdebug_ignored_errors[i].x \in Range(conditions)

(* maybe_call_debugger's test; no input is blocked.  sig is the error   *)
(* symbol and e the error object with its data.                         *)
maybe_call_debugger(conditions, sig, e) ==
    /\ Vinhibit_debugger = Qnil
    /\ IF sig = "quit"
       THEN debug_on_quit
       ELSE wants_debugger(Vdebug_on_error, conditions)
    /\ ~skip_debugger(conditions, e)
    /\ when_entered_debugger < num_nonmacro_input_events

(* Fsignal's test before it transfers control: whether it calls the     *)
(* debugger.  m are the handlers that apply, innermost first; clause is *)
(* the handler's condition list when that is a list.                    *)
debugger_called(hl, e) ==
    LET conditions == ErrorConditions(real_error_symbol(e))
        m == {i \in 1..Len(hl) : /\ hl[i].type = "CONDITION_CASE"
                                 /\ find_handler_clause(hl[i], conditions)}
    IN /\ e.car # "nil"
       /\ \/ Vdebug_on_signal # Qnil
          \/ m = {}
          \/ "debug" \in Range(hl[Min(m)].ch)
          \/ hl[Min(m)].tag = "error"
       /\ maybe_call_debugger(conditions, e.car, e)

(* Fsignal returning to its caller after any call of the debugger.      *)
debugger_returned_any(e) == TRUE

(* Fsignal once maybe_call_debugger has called the debugger and the     *)
(* debugger has returned: whether Fsignal returns nil to its caller.    *)
debugger_returned(e) == real_error_symbol(e) = "quit"

(* Fsignal and Fthrow call each other: a signal nobody handles throws   *)
(* to top-level, and a throw nobody catches signals no-catch.  When     *)
(* that signal is again unhandled and nothing catches top-level the two *)
(* functions call each other without end ("diverge").  Fsignal_transfer *)
(* is Fsignal from its test of clause on, where it leaves by            *)
(* unwind_to_catch, Fthrow or fatal; before that it may call the        *)
(* debugger ("debugger"), which Vsignal_hook_function, nil here, does   *)
(* not precede.                                                         *)
RECURSIVE Fsignal(_, _), Fthrow(_, _, _, _), Fsignal_transfer(_, _)
Fsignal(hl, e) ==
    IF debugger_called(hl, e)
    THEN [Outcome("debugger", 0, e) EXCEPT !.sigs = <<e>>]
    ELSE Fsignal_transfer(hl, e)

Fsignal_transfer(hl, e) ==
    LET conditions == ErrorConditions(real_error_symbol(e))
        m == {i \in 1..Len(hl) : /\ hl[i].type = "CONDITION_CASE"
                                 /\ find_handler_clause(hl[i], conditions)}
        c == {i \in 1..Len(hl) : /\ hl[i].type = "CATCHER"
                                 /\ hl[i].tag = "top-level"}
        o == IF m # {}
             THEN unwind_to_catch(hl[Min(m)], e)
             ELSE IF Head(hl) # handlerlist_sentinel
                  THEN IF e.car = "no-catch" /\ e.tag = "top-level" /\ c = {}
                       THEN Outcome("diverge", 0, e)
                       ELSE Fthrow(hl, "top-level", Qt, e.org)
                  ELSE Outcome("fatal", 0, e)
    IN [o EXCEPT !.sigs = <<e>> \o @]

(* Fthrow unwinding to the outermost catch of the tag.                  *)
FthrowOutermost(hl, tag, value, org) ==
    LET c == {i \in 1..Len(hl) : /\ hl[i].type = "CATCHER"
                                 /\ hl[i].tag = tag}
    IN IF tag # "nil" /\ c # {}
       THEN unwind_to_catch(hl[CHOOSE i \in c : \A j \in c : j <= i],
                            Obj("value", tag, value, org))
       ELSE Fsignal(hl, Obj("no-catch", tag, value, org))

Fthrow(hl, tag, value, org) ==
    LET c == {i \in 1..Len(hl) : /\ hl[i].type = "CATCHER"
                                 /\ hl[i].tag = tag}
    IN IF tag # "nil" /\ c # {}
       THEN unwind_to_catch(hl[Min(c)], Obj("value", tag, value, org))
       ELSE Fsignal(hl, Obj("no-catch", tag, value, org))

(* ------------------------------------------------------------------ *)
(* eval.c: the binding stack                                            *)
(* ------------------------------------------------------------------ *)
(* grow_specpdl after specpdl_ptr++ left count entries below the        *)
(* pointer.  Returns the error, specpdl_size and max_specpdl_size.      *)
(* xpalloc is asked for at least one more item and at most max_size + 1 *)
(* items; newsize is the specpdl_size that results, and ok says that it *)
(* is one xpalloc may give (or, without growth, the old size).          *)
grow_specpdl(count, size, maxv, newsize) ==
    IF count = size
    THEN LET raised == maxv <= size /\ maxv < MinMaxSpecpdlSize
             max_size == IF raised THEN MinMaxSpecpdlSize ELSE maxv
         IN IF max_size <= size
            THEN [err |-> "error", size |-> size, max |-> max_size,
                  ok |-> newsize = size]
            ELSE [err |-> "", size |-> newsize, max |-> max_size,
                  ok |-> newsize \in (size + 1)..max_size]
    ELSE [err |-> "", size |-> size, max |-> maxv, ok |-> newsize = size]

(* What specbind returns when it signals before it touches specpdl.     *)
specbind_early(err, st, newsize) ==
    [err |-> err, depth |-> FALSE, ub |-> FALSE,
     ok |-> newsize = specpdl_size, pdl |-> specpdl,
     size |-> specpdl_size, st |-> st]

(* The kind of record specbind writes for the symbol.                   *)
specbind_kind(st, sym) ==
    CASE st.red[sym] = "PLAINVAL" -> "SPECPDL_LET"
      [] st.red[sym] = "LOCALIZED" ->
           IF st.blv[sym].found THEN "SPECPDL_LET_LOCAL"
                                ELSE "SPECPDL_LET_DEFAULT"
      [] BUFFER_OBJFWDP(sym) ->
           IF Flocal_variable_p(st, sym, "nil")
           THEN "SPECPDL_LET_LOCAL"
           ELSE "SPECPDL_LET_DEFAULT"
      [] OTHER -> "SPECPDL_LET"

(* specbind's outcome once the value is stored, which gave w.           *)
specbind_done(w, b, g) ==
    [err |-> w.err, depth |-> FALSE,
     ub |-> Len(specpdl) >= specpdl_size,
     ok |-> g.ok, pdl |-> Append(specpdl, b), size |-> g.size,
     st |-> w.st]

(* specbind after grow_specpdl, whose outcome is g: the record b is on  *)
(* specpdl, and the value is stored unless g is an error.               *)
specbind_store(sym, value, b, g, st) ==
    LET st1 == [st EXCEPT !.val[SymF] = g.max]
    IN IF g.err # ""
       THEN [err |-> g.err, depth |-> TRUE,
             ub |-> Len(specpdl) >= specpdl_size,
             ok |-> g.ok, pdl |-> Append(specpdl, b), size |-> g.size,
             st |-> st1]
       ELSE specbind_done(
                IF st1.red[sym] = "PLAINVAL" /\ ~constant[sym]
                THEN [err |-> "", st |-> [st1 EXCEPT !.val[sym] = value]]
                ELSE IF /\ st1.red[sym] = "FORWARDED"
                        /\ BUFFER_OBJFWDP(sym)
                        /\ b.kind = "SPECPDL_LET_DEFAULT"
                     THEN Fset_default(st1, sym, value)
                     ELSE set_internal(st1, sym, value, "nil", TRUE),
                b, g)

(* specbind from the writing of the record on; ov is the value found    *)
(* for the symbol.                                                      *)
specbind_push(sym, value, newsize, ov) ==
    IF ov.err # ""
    THEN specbind_early(ov.err, ov.st, newsize)
    ELSE specbind_store(
             sym, value,
             Binding(specbind_kind(ov.st, sym), sym, ov.val,
                     IF ov.st.red[sym] = "PLAINVAL" THEN "" ELSE ov.st.cur),
             grow_specpdl(Len(specpdl) + 1, specpdl_size, ov.st.val[SymF],
                          newsize),
             ov.st)

(* specbind up to its label `done'.  ub: the entry was stored at or     *)
(* past specpdl + specpdl_size, outside the vector.  pdl: the entries   *)
(* below specpdl_ptr when specbind returns or signals err.  depth: the  *)
(* error is grow_specpdl's.                                             *)
specbind(symbol, value, newsize) ==
    LET r == indirect_variable(symbol)
        sym == r.hare
        st0 == Store(symval, redirect)
    IN IF r.pc = "cyclic"
       THEN specbind_early("cyclic-variable-indirection", st0, newsize)
       ELSE IF redirect[sym] = "LOCALIZED" /\ blv[sym].frame_local
       THEN specbind_early("error", st0, newsize)
       ELSE specbind_push(
                sym, value, newsize,
                IF redirect[sym] = "PLAINVAL"
                THEN [err |-> "", val |-> symval[sym], st |-> st0]
                ELSE find_symbol_value(st0, sym))

(* unbind_once's outcome: w is what undoing the record gave, and the    *)
(* record is off specpdl, which specpdl_ptr-- did first.                *)
unbind_once_pop(w, pdl) ==
    [err |-> w.err, st |-> w.st, pdl |-> SubSeq(pdl, 1, Len(pdl) - 1)]

(* unbind_once undoing a SPECPDL_LET record of a symbol that is Plain   *)
(* no longer with Fset.                                                 *)
unbind_once_set(st, pdl) ==
    LET b == pdl[Len(pdl)]
    IN unbind_once_pop(
           CASE b.kind = "SPECPDL_LET" /\ st.red[b.symbol] = "PLAINVAL" ->
                  [err |-> "",
                   st |-> [st EXCEPT !.val[b.symbol] = b.old_value]]
             [] b.kind = "SPECPDL_LET" ->
                  Fset(st, b.symbol, b.old_value)
             [] b.kind = "SPECPDL_LET_DEFAULT" ->
                  Fset_default(st, b.symbol, b.old_value)
             [] OTHER ->
                  IF Flocal_variable_p(st, b.symbol, b.where)
                  THEN set_internal(st, b.symbol, b.old_value, b.where, TRUE)
                  ELSE [err |-> "", st |-> st],
           pdl)

(* unbind_once on the cells st with the entries pdl below specpdl_ptr.  *)
unbind_once(st, pdl) ==
    LET b == pdl[Len(pdl)]
    IN unbind_once_pop(
           CASE b.kind = "SPECPDL_LET" /\ st.red[b.symbol] = "PLAINVAL" ->
                  [err |-> "",
                   st |-> [st EXCEPT !.val[b.symbol] = b.old_value]]
             [] b.kind \in {"SPECPDL_LET", "SPECPDL_LET_DEFAULT"} ->
                  Fset_default(st, b.symbol, b.old_value)
             [] OTHER ->
                  IF Flocal_variable_p(st, b.symbol, b.where)
                  THEN set_internal(st, b.symbol, b.old_value, b.where, TRUE)
                  ELSE [err |-> "", st |-> st],
           pdl)

(* record_unwind_protect_ptr_1, record_unwind_protect: the unwind       *)
(* handler put on the dynamic stack; id is history.                     *)
record_unwind_protect_ptr_1(function, id, wind_explicitly) ==
    Winder(function, wind_explicitly, <<>>, 0, id)

(* A cleanup registered without SCM_F_WIND_EXPLICITLY.                  *)
record_unwind_protect_nonlocal(function, id) ==
    record_unwind_protect_ptr_1(function, id, FALSE)

record_unwind_protect(function, id) ==
    record_unwind_protect_ptr_1(function, id, TRUE)

(* ------------------------------------------------------------------ *)
(* The evaluator.  Lisp code is any sequence of the calls below; Guile  *)
(* leaves a dynwind context (scm_dynwind_end) or unwinds to a prompt    *)
(* (abort-to-prompt) one entry of the dynamic stack at a time, taking   *)
(* each entry off before running its unwind handler.                    *)
(* ------------------------------------------------------------------ *)
Clause(tag, ch, body) == [tag |-> tag, ch |-> ch, body |-> body]

(* The condition-case forms that are evaluated: variable and clauses.   *)
CcForm(var, handlers) == [var |-> var, handlers |-> handlers]
CcForms ==
    << CcForm("nil", <<Clause("arith-error", <<>>, "H1"),
                       Clause("error", <<>>, "H2")>>),
       CcForm(SymA, <<Clause("", <<"quit", "wrong-type-argument">>, "H1")>>) >>
BindInputs == {<<SymA, 1>>, <<SymA, 2>>, <<SymK, 1>>, <<SymF, 1>>, <<SymF, Qx>>}
Cleanups == {"f_log", "f_sig"}     \* f_sig signals `error' when it runs
CatchTags == {"tag1", "top-level"}
ThrowTags == {"tag1", "nil"}
ThrowVals == {7}
SignalErrs == {"arith-error", "wrong-type-argument"}

Top(d) == d[Len(d)]
Pop(d) == SubSeq(d, 1, Len(d) - 1)
FramesOf(d) == {i \in 1..Len(d) : d[i].k = "frame"}
Depth == Cardinality(FramesOf(dynstack))

(* What call_with_prompt was called by, told by its handler closure:    *)
(* internal_catch (icc_handler with Fidentity), internal_condition_case *)
(* (icc_handler with hfun) or ilcc1 (icc_lisp_handler).                 *)
ExitKind(hkind) ==
    CASE hkind = "identity" -> "catch"
      [] hkind = "hfun" -> "condition"
      [] OTHER -> "cc"

(* Where control is after a call returned: an icc_thunk whose body was  *)
(* the inner ilcc1 goes on to its scm_dynwind_end.                      *)
Resume(d) ==
    IF FramesOf(d) # {} /\ d[CHOOSE i \in FramesOf(d) :
                                \A j \in FramesOf(d) : j <= i].chain
    THEN "end"
    ELSE "run"

Go(o) == pc' = o.pc /\ target' = o.target /\ uval' = o.uval

(* The store an operation leaves becomes the state.                     *)
SetStore(st) ==
    /\ symval' = st.val
    /\ redirect' = st.red
    /\ blv' = st.blv
    /\ cells' = st.cells
    /\ buffers' = st.buf
    /\ buffer_defaults' = st.defaults
    /\ found_ok' = st.found_ok

(* The symbols as the definitions of variables leave them; vb is the   *)
(* value of SymB and maxpdl that of max-specpdl-size.                   *)
InitSymbolsMax(vb, maxpdl) ==
    /\ redirect = [s \in Syms |-> IF s \in {SymF, SymP, SymQ, SymDMC, SymIR,
                                              SymID}
                                  THEN "FORWARDED" ELSE "PLAINVAL"]
    /\ alias = [s \in Syms |-> ""]
    /\ constant = [s \in Syms |-> s \in {SymK, SymKw}]
    /\ symval = [s \in Syms |->
                    CASE s = SymA -> Qnil
                      [] s = SymB -> vb
                      [] s = SymK -> Qt
                      [] s = SymF -> maxpdl
                      [] s = SymKw -> Qkw
                      [] s \in {SymP, SymQ, SymDMC, SymIR, SymID} -> Qnil
                      [] OTHER -> Qunbound]

InitSymbols(vb) == InitSymbolsMax(vb, InitMaxSpecpdlSize)

(* Two buffers without local bindings; no symbol is Localized.          *)
InitBuffers ==
    /\ blv = [s \in Syms |-> NoBlv]
    /\ cells = <<>>
    /\ buffers = [b \in Buffers |->
                     [local_var_alist |-> <<>>, slot |-> Qnil,
                      local_flags |-> FALSE]]
    /\ buffer_defaults = Qnil
    /\ current_buffer = "B1"
    /\ found_ok = TRUE

(* No call of funcall_lambda has been made.                             *)
NoCall ==
    [fun |-> 0, nargs |-> 0, syms_left |-> <<>>, i |-> 0, optional |-> FALSE,
     rest |-> FALSE]

InitCall ==
    /\ funcall = NoCall
    /\ Vautoload_queue = QueueNil
    /\ Vfeatures = 0
    /\ symbol_function = [s \in FnSyms |-> AutoloadObject]

(* init_eval_once, init_eval and syms_of_eval: the debugger is off.     *)
InitEval ==
    /\ max_lisp_eval_depth = InitMaxLispEvalDepth
    /\ lisp_eval_depth = 0
    /\ when_entered_debugger = -1
    /\ num_nonmacro_input_events = 0
    /\ Vdebug_on_error = DebugOn("nil", <<>>)
    /\ debug_on_quit = FALSE
    /\ Vdebug_on_signal = Qnil
    /\ signaling = <<>>
    /\ Vdebug_ignored_errors = <<>>

Init ==
    /\ InitSymbols(Qunbound)
    /\ InitBuffers
    /\ specpdl = <<>>
    /\ specpdl_size = InitSpecpdlSize
    /\ handlerlist = <<handlerlist_sentinel>>
    /\ dynstack = <<>>
    /\ pc = "run"
    /\ target = 0
    /\ uval = NoObj
    /\ result = Qnil
    /\ ncleanups = 0
    /\ ran = [i \in 1..MaxCleanups |-> 0]
    /\ ev = NoEv
    /\ ncalls = 0
    /\ iv = IvIdle
    /\ InitCall
    /\ InitEval

DoDynwindBegin ==
    /\ pc = "run"
    /\ ncalls < MaxCalls
    /\ ncalls' = ncalls + 1
    /\ Depth < MaxDepth
    /\ dynstack' = Append(dynstack, Frame("dynwind", Snap, FALSE))
    /\ ev' = Ev("begin", "dynwind", "", 0, 0, NoSnap, <<>>, <<>>)
    /\ UNCHANGED <<redirect, alias, constant, symval, specpdl, specpdl_size,
                   handlerlist, pc, target, uval, result, ncleanups, ran, iv,
                   blv, cells, buffers, buffer_defaults, found_ok, current_buffer>>
    /\ UNCHANGED cvars
    /\ UNCHANGED avars
    /\ UNCHANGED dvars

(* Where the caller of specbind goes on when specbind returns.          *)
AfterSpecbind(org) ==
    CASE org = "funcall" -> "params"
      [] org = "debugger1" -> "debugger2"
      [] org = "debugger2" -> "debugger3"
      [] OTHER -> "run"

(* specbind called with the dynamic stack dyn; sets every variable but  *)
(* handlerlist, result, the cleanups' history and the alias graph.      *)
ApplySpecbind(symbol, value, dyn, org) ==
    \E newsize \in 1..MaxSpecpdlSize :
    \E o \in {specbind(symbol, value, newsize)} :
      LET data == IF o.depth THEN "binding-depth" ELSE symbol
          s == Fsignal(handlerlist,
                       Obj(o.err, data, IF o.depth THEN Qnil ELSE value, org))
      IN /\ o.ok
         /\ \/ /\ o.ub
               /\ pc' = "crashed"
               /\ dynstack' = dyn
               /\ ev' = Ev("crash", symbol, "", Len(specpdl), 0, NoSnap, <<>>,
                           <<>>)
               /\ UNCHANGED <<specpdl, specpdl_size, symval, redirect, target,
                              uval,
                              blv, cells, buffers, buffer_defaults, found_ok>>
            \/ /\ specpdl' = o.pdl
               /\ specpdl_size' = o.size
               /\ SetStore(o.st)
               /\ IF o.err = ""
                  THEN /\ dynstack' = Append(dyn, Winder("unbind_once", TRUE,
                                                         <<>>, 0, Len(o.pdl)))
                       /\ pc' = AfterSpecbind(org)
                       /\ ev' = Ev("specbind", symbol, org, Len(o.pdl), 0,
                                   NoSnap, <<>>, <<>>)
                       /\ UNCHANGED <<target, uval>>
                  ELSE /\ dynstack' = dyn
                       /\ Go(s)
                       /\ ev' = Ev("signal", o.err, "specbind", Len(o.pdl),
                                   Len(dyn), NoSnap, handlerlist, s.sigs)

DoSpecbind(symbol, value) ==
    /\ pc = "run"
    /\ ncalls < MaxCalls
    /\ ncalls' = ncalls + 1
    /\ Depth > 0
    /\ Len(specpdl) < MaxPdl + 3 * Len(signaling)
    /\ ApplySpecbind(symbol, value, dynstack, "run")
    /\ UNCHANGED <<alias, constant, handlerlist, result, ncleanups, ran, iv,
                   current_buffer>>
    /\ UNCHANGED cvars
    /\ UNCHANGED avars
    /\ UNCHANGED dvars

(* record_unwind_protect called by Lisp code.  The hl of the entry is    *)
(* history: the handler stack at the time of the call.                  *)
DoRecordUnwindProtect(function) ==
    /\ pc = "run"
    /\ ncalls < MaxCalls
    /\ ncalls' = ncalls + 1
    /\ Depth > 0
    /\ ncleanups < MaxCleanups
    /\ ncleanups' = ncleanups + 1
    /\ dynstack' = Append(dynstack,
                          [record_unwind_protect(function, ncleanups')
                             EXCEPT !.hl = handlerlist])
    /\ ev' = Ev("protect", function, "", ncleanups', 0, NoSnap, <<>>, <<>>)
    /\ UNCHANGED <<redirect, alias, constant, symval, specpdl, specpdl_size,
                   handlerlist, pc, target, uval, result, ran, iv,
                   blv, cells, buffers, buffer_defaults, found_ok, current_buffer>>
    /\ UNCHANGED cvars
    /\ UNCHANGED avars
    /\ UNCHANGED dvars

(* icc_thunk registering set_handlerlist for non-local exits only.      *)
icc_thunk_nonlocal(c, hkind, hl, chain) ==
    LET snap == [idx |-> Len(specpdl), vals |-> symval, hl |-> hl]
    IN << Prompt(hkind, c, snap), Frame("icc", snap, chain),
          Winder("set_handlerlist", FALSE, hl, 0, 0) >>

(* icc_thunk registering set_handlerlist with no handler stack to       *)
(* restore.                                                             *)
icc_thunk_forget_handlers(c, hkind, hl, chain) ==
    LET snap == [idx |-> Len(specpdl), vals |-> symval, hl |-> hl]
    IN << Prompt(hkind, c, snap), Frame("icc", snap, chain),
          Winder("set_handlerlist", TRUE, <<>>, 0, 0) >>

(* icc_thunk up to the call of the body: the entries it puts on the     *)
(* dynamic stack above the prompt of handler c.  restore_handler only   *)
(* touches interrupt_input_blocked and immediate_quit, which are not    *)
(* part of the state here.                                              *)
icc_thunk(c, hkind, hl, chain) ==
    LET snap == [idx |-> Len(specpdl), vals |-> symval, hl |-> hl]
    IN << Prompt(hkind, c, snap), Frame("icc", snap, chain),
          Winder("set_handlerlist", TRUE, hl, 0, 0) >>

DoInternalCatch(tag) ==
    /\ pc = "run"
    /\ ncalls < MaxCalls
    /\ ncalls' = ncalls + 1
    /\ Depth < MaxDepth
    /\ LET c == make_catch_handler(tag, Len(dynstack) + 1)
       IN /\ dynstack' = dynstack \o icc_thunk(c, "identity", handlerlist, FALSE)
          /\ handlerlist' = <<c>> \o handlerlist
    /\ ev' = Ev("begin", "catch", tag, 0, 0, NoSnap, <<>>, <<>>)
    /\ UNCHANGED <<redirect, alias, constant, symval, specpdl, specpdl_size,
                   pc, target, uval, result, ncleanups, ran, iv,
                   blv, cells, buffers, buffer_defaults, found_ok, current_buffer>>
    /\ UNCHANGED cvars
    /\ UNCHANGED avars
    /\ UNCHANGED dvars

(* The handlers internal_condition_case is called with: Qt, Qerror or a *)
(* list of condition names.                                             *)
CondHandlers ==
    {[tag |-> "t", ch |-> <<>>], [tag |-> "error", ch |-> <<>>],
     [tag |-> "", ch |-> <<"arith-error">>]}

(* The handler function given to internal_condition_case, called with   *)
(* the error object: it returns nil.                                    *)
hfun(val) == Qnil

(* internal_condition_case and its _1, _2 and _n variants, which differ *)
(* in the arguments they pass to the body.                              *)
DoInternalConditionCase(handlers) ==
    /\ pc = "run"
    /\ ncalls < MaxCalls
    /\ ncalls' = ncalls + 1
    /\ Depth < MaxDepth
    /\ LET c == make_condition_handler(handlers.tag, handlers.ch,
                                       Len(dynstack) + 1)
       IN /\ dynstack' = dynstack \o icc_thunk(c, "hfun", handlerlist, FALSE)
          /\ handlerlist' = <<c>> \o handlerlist
    /\ ev' = Ev("begin", "condition", handlers.tag, 0, 0, NoSnap, <<>>, <<>>)
    /\ UNCHANGED <<redirect, alias, constant, symval, specpdl, specpdl_size,
                   pc, target, uval, result, ncleanups, ran, iv,
                   blv, cells, buffers, buffer_defaults, found_ok, current_buffer>>
    /\ UNCHANGED cvars
    /\ UNCHANGED avars
    /\ UNCHANGED dvars

(* The value of the last form of a handler body.                        *)
Fprogn(body) == IF body = "H1" THEN 11 ELSE 12

(* ilcc1 on the reversed clause list: one prompt and handler per        *)
(* clause, last-declared clause outermost.                              *)
RECURSIVE ilcc1(_, _, _, _, _, _)
ilcc1(var, handlers, dyn, hl, cc, form) ==
    IF handlers = <<>>
    THEN [dyn |-> dyn, hl |-> hl]
    ELSE LET clause == Head(handlers)
             condition == IF clause.ch = <<>> THEN <<clause.tag>> ELSE clause.ch
             c == [make_condition_handler("", condition, Len(dyn) + 1)
                     EXCEPT !.var = var, !.body = clause.body, !.cc = cc,
                            !.form = form, !.ci = Len(handlers)]
         IN ilcc1(var, Tail(handlers),
                  dyn \o icc_thunk(c, "lisp", hl, Len(handlers) > 1),
                  <<c>> \o hl, cc, form)

Freverse(l) == [i \in 1..Len(l) |-> l[Len(l) + 1 - i]]

(* The clauses installed in the order they are declared.                *)
internal_lisp_condition_case_declared(var, form) ==
    ilcc1(var, CcForms[form].handlers, dynstack, handlerlist,
          Len(dynstack) + 1, form)

internal_lisp_condition_case(var, form) ==
    ilcc1(var, Freverse(CcForms[form].handlers), dynstack, handlerlist,
          Len(dynstack) + 1, form)

DoConditionCase(form) ==
    /\ pc = "run"
    /\ ncalls < MaxCalls
    /\ ncalls' = ncalls + 1
    /\ Depth + Len(CcForms[form].handlers) <= MaxDepth
    /\ LET r == internal_lisp_condition_case(CcForms[form].var, form)
       IN dynstack' = r.dyn /\ handlerlist' = r.hl
    /\ ev' = Ev("begin", "cc", "", form, 0, NoSnap, <<>>, <<>>)
    /\ UNCHANGED <<redirect, alias, constant, symval, specpdl, specpdl_size,
                   pc, target, uval, result, ncleanups, ran, iv,
                   blv, cells, buffers, buffer_defaults, found_ok, current_buffer>>
    /\ UNCHANGED cvars
    /\ UNCHANGED avars
    /\ UNCHANGED dvars

DoThrow(tag, value) ==
    /\ pc = "run"
    /\ ncalls < MaxCalls
    /\ ncalls' = ncalls + 1
    /\ LET o == Fthrow(handlerlist, tag, value, "run")
       IN /\ Go(o)
          /\ ev' = Ev("throw", tag, "", value, Len(dynstack), NoSnap,
                      handlerlist, o.sigs)
    /\ UNCHANGED <<redirect, alias, constant, symval, specpdl, specpdl_size,
                   handlerlist, dynstack, result, ncleanups, ran, iv,
                   blv, cells, buffers, buffer_defaults, found_ok, current_buffer>>
    /\ UNCHANGED cvars
    /\ UNCHANGED avars
    /\ UNCHANGED dvars

DoSignal(error_symbol) ==
    /\ pc = "run"
    /\ ncalls < MaxCalls
    /\ ncalls' = ncalls + 1
    /\ LET o == Fsignal(handlerlist, Obj(error_symbol, "", Qnil, "run"))
       IN /\ Go(o)
          /\ ev' = Ev("signal", error_symbol, "lisp", 0, Len(dynstack), NoSnap,
                      handlerlist, o.sigs)
    /\ UNCHANGED <<redirect, alias, constant, symval, specpdl, specpdl_size,
                   handlerlist, dynstack, result, ncleanups, ran, iv,
                   blv, cells, buffers, buffer_defaults, found_ok, current_buffer>>
    /\ UNCHANGED cvars
    /\ UNCHANGED avars
    /\ UNCHANGED dvars

(* ------------------------------------------------------------------ *)
(* eval.c: autoloading                                                  *)
(* ------------------------------------------------------------------ *)
FnNames == <<"f", "g">>
Definitions == {1, 2}

(* The features are known by the numbers 1 and 2, and a list of them by *)
(* its elements read as digits, the first element lowest; 0 is nil.     *)
Features == {1, 2}

FeatureCons(feature, list) == feature + 3 * list

RECURSIVE FeatureMemq(_, _)
FeatureMemq(feature, list) ==
    /\ list # 0
    /\ \/ list % 3 = feature
       \/ FeatureMemq(feature, list \div 3)

(* An fset or a provide that finds Vautoload_queue non-nil conses its   *)
(* record onto the front.                                               *)
Record(queue, fun, old) ==
    IF queue = QueueNil
    THEN queue
    ELSE [queue EXCEPT !.recs = <<[fun |-> fun, old |-> old]>> \o @]

(* A defun, that is Fdefalias and its fset, in the file being loaded.   *)
DoFset(symbol, definition) ==
    /\ pc = "run"
    /\ ncalls < MaxCalls
    /\ ncalls' = ncalls + 1
    /\ Vautoload_queue' = Record(Vautoload_queue, symbol,
                                 symbol_function[symbol])
    /\ symbol_function' = [symbol_function EXCEPT ![symbol] = definition]
    /\ ev' = Ev("fset", symbol, "", definition, 0, NoSnap, <<>>, <<>>)
    /\ UNCHANGED <<redirect, alias, constant, symval, specpdl, specpdl_size,
                   handlerlist, dynstack, pc, target, uval, result, ncleanups,
                   ran, iv, blv, cells, buffers, buffer_defaults, found_ok,
                   current_buffer, funcall, Vfeatures>>
    /\ UNCHANGED dvars

(* A provide in the file being loaded.                                  *)
DoProvide(feature) ==
    /\ pc = "run"
    /\ ncalls < MaxCalls
    /\ ncalls' = ncalls + 1
    /\ Vautoload_queue' = Record(Vautoload_queue, "0", Vfeatures)
    /\ Vfeatures' = IF FeatureMemq(feature, Vfeatures)
                    THEN Vfeatures
                    ELSE FeatureCons(feature, Vfeatures)
    /\ ev' = Ev("provide", "", "", feature, 0, NoSnap, <<>>, <<>>)
    /\ UNCHANGED <<redirect, alias, constant, symval, specpdl, specpdl_size,
                   handlerlist, dynstack, pc, target, uval, result, ncleanups,
                   ran, iv, blv, cells, buffers, buffer_defaults, found_ok,
                   current_buffer, funcall, symbol_function>>
    /\ UNCHANGED dvars

(* un_autoload's loop over the queue, first record first.               *)
RECURSIVE un_autoload_loop(_, _)
un_autoload_loop(queue, r) ==
    IF queue = <<>>
    THEN r
    ELSE un_autoload_loop(
             Tail(queue),
             IF Head(queue).fun = "0"
             THEN [r EXCEPT !.features = Head(queue).old]
             ELSE [r EXCEPT !.fns[Head(queue).fun] = Head(queue).old])

(* un_autoload running through the newest record last.                  *)
un_autoload_oldest_first(oldqueue, queue, fns, features) ==
    [queue |-> oldqueue]
    @@ un_autoload_loop([j \in 1..Len(queue.recs) |->
                            queue.recs[Len(queue.recs) + 1 - j]],
                        [fns |-> fns, features |-> features])

un_autoload(oldqueue, queue, fns, features) ==
    [queue |-> oldqueue]
    @@ un_autoload_loop(queue.recs, [fns |-> fns, features |-> features])

(* The unwind handler un_autoload, registered with the queue to leave   *)
(* in Vautoload_queue, when it is the entry on top of the dynamic       *)
(* stack; no other unwind handler touches these variables.              *)
RunUnAutoload ==
    IF /\ dynstack # <<>>
       /\ Top(dynstack).k = "winder"
       /\ Top(dynstack).fn = "un_autoload"
    THEN \E u \in {un_autoload(Top(dynstack).snap.queue, Vautoload_queue,
                               symbol_function, Vfeatures)} :
            /\ Vautoload_queue' = u.queue
            /\ Vfeatures' = u.features
            /\ symbol_function' = u.fns
    ELSE UNCHANGED avars

(* What taking call_debugger's entries off the dynamic stack does to    *)
(* the debugger's variables: restore_stack_limits puts back             *)
(* max_lisp_eval_depth, and with the frame the call of Fsignal that     *)
(* waited for the debugger is over.                                     *)
LeaveDebugger ==
    /\ max_lisp_eval_depth' =
           IF /\ dynstack # <<>>
              /\ Top(dynstack).k = "winder"
              /\ Top(dynstack).fn = "restore_stack_limits"
           THEN Top(dynstack).gi
           ELSE max_lisp_eval_depth
    /\ signaling' =
           IF /\ dynstack # <<>>
              /\ Top(dynstack).k = "frame"
              /\ Top(dynstack).fn = "debugger"
           THEN Pop(signaling)
           ELSE signaling
    /\ UNCHANGED <<lisp_eval_depth, when_entered_debugger,
                   num_nonmacro_input_events, Vdebug_on_error, debug_on_quit,
                   Vdebug_on_signal,
                   Vdebug_ignored_errors>>

(* The frame opened last that is still open.                            *)
InnerFrame(d) == d[CHOOSE i \in FramesOf(d) : \A j \in FramesOf(d) : j <= i]

(* Fautoload_do_load up to its call of Fload, or to its return when the *)
(* definition is no autoload object.  The match data saved and          *)
(* restored around the load are no part of the model.                   *)
DoAutoloadDoLoad(funname) ==
    /\ pc = "run"
    /\ ncalls < MaxCalls
    /\ ncalls' = ncalls + 1
    /\ Depth < MaxDepth
    /\ IF symbol_function[funname] # AutoloadObject
       THEN /\ result' = symbol_function[funname]
            /\ ev' = Ev("autoload", funname, "return", 0, 0, NoSnap, <<>>,
                        <<>>)
            /\ UNCHANGED <<dynstack, Vautoload_queue>>
       ELSE /\ dynstack' =
                 dynstack \o
                 << [Frame("autoload", Snap, FALSE)
                       EXCEPT !.gi = IndexOf(FnNames, funname)],
                    [Winder("un_autoload", TRUE, <<>>, 0, 0)
                       EXCEPT !.snap = Snap] >>
            /\ Vautoload_queue' = QueueT
            /\ ev' = Ev("begin", "autoload", funname, 0, 0, NoSnap, <<>>, <<>>)
            /\ UNCHANGED result
    /\ UNCHANGED <<redirect, alias, constant, symval, specpdl, specpdl_size,
                   handlerlist, pc, target, uval, ncleanups, ran, iv,
                   blv, cells, buffers, buffer_defaults, found_ok,
                   current_buffer, funcall, Vfeatures, symbol_function>>
    /\ UNCHANGED dvars

(* Ftop_level: a throw to top-level.                                    *)
Ftop_level(hl) == Fthrow(hl, "top-level", Qnil, "debugger")

(* The body of the innermost frame is done: dynwind_end, or the         *)
(* scm_dynwind_end of icc_thunk or icc_lisp_handler.  When the body is  *)
(* the debugger's and the debugger was entered during redisplay,        *)
(* call_debugger goes back to top-level instead.                        *)
DoDynwindEnd ==
    /\ pc = "run"
    /\ ncalls < MaxCalls
    /\ ncalls' = ncalls + 1
    /\ Depth > 0
    /\ IF /\ InnerFrame(dynstack).fn = "debugger"
          /\ Top(signaling).debug_while_redisplaying
       THEN LET o == Ftop_level(handlerlist)
            IN /\ Go(o)
               /\ ev' = Ev("throw", "top-level", "debugger", Qnil,
                           Len(dynstack), NoSnap, handlerlist, o.sigs)
       ELSE /\ pc' = "end"
            /\ ev' = Ev("end", "", "", 0, 0, NoSnap, <<>>, <<>>)
            /\ UNCHANGED <<target, uval>>
    /\ UNCHANGED <<redirect, alias, constant, symval, specpdl, specpdl_size,
                   handlerlist, dynstack, result, ncleanups,
                   ran, iv,
                   blv, cells, buffers, buffer_defaults, found_ok, current_buffer>>
    /\ UNCHANGED cvars
    /\ Vautoload_queue' = IF InnerFrame(dynstack).fn = "autoload"
                          THEN QueueT
                          ELSE Vautoload_queue
    /\ UNCHANGED <<Vfeatures, symbol_function>>
    /\ UNCHANGED dvars

(* Run the unwind handler e, already taken off the dynamic stack, which *)
(* is now d.  mode says who runs it: scm_dynwind_end or an unwind.      *)
RunWinder(e, d, mode) ==
    CASE e.fn = "unbind_once" ->
           IF specpdl = <<>>
           THEN /\ pc' = "crashed"
                /\ dynstack' = d
                /\ ev' = Ev("crash", "", mode, e.gi, 0, NoSnap, <<>>, <<>>)
                /\ UNCHANGED <<redirect, symval, specpdl, handlerlist, target,
                               uval, ran,
                               blv, cells, buffers, buffer_defaults, found_ok>>
           ELSE \E u \in {unbind_once(Store(symval, redirect), specpdl)} :
                LET s == Fsignal(handlerlist,
                                 Obj(u.err, Top(specpdl).symbol, Qnil, mode))
                IN /\ specpdl' = u.pdl
                   /\ SetStore(u.st)
                   /\ dynstack' = d
                   /\ IF u.err = ""
                      THEN /\ ev' = Ev("undo", Top(specpdl).symbol, mode, e.gi,
                                       Len(specpdl), NoSnap,
                                       <<Top(specpdl)>>, <<>>)
                           /\ UNCHANGED <<pc, target, uval>>
                      ELSE /\ Go(s)
                           /\ ev' = Ev("signal", u.err, "unbind_once", e.gi,
                                       Len(d), NoSnap, handlerlist, s.sigs)
                   /\ UNCHANGED <<handlerlist, ran>>
      [] e.fn = "set_handlerlist" ->
           /\ handlerlist' = e.hl
           /\ dynstack' = d
           /\ ev' = Ev("set_handlerlist", "", mode, 0, 0, NoSnap, <<>>, <<>>)
           /\ UNCHANGED <<redirect, symval, specpdl, pc, target, uval, ran,
                          blv, cells, buffers, buffer_defaults, found_ok>>
      [] e.fn = "restore_stack_limits" ->
           /\ symval' = [symval EXCEPT ![SymF] = e.ptag]
           /\ dynstack' = d
           /\ ev' = Ev("restore_stack_limits", "", mode, e.ptag, e.gi, NoSnap,
                       <<>>, <<>>)
           /\ UNCHANGED <<redirect, specpdl, handlerlist, pc, target, uval,
                          ran,
                          blv, cells, buffers, buffer_defaults, found_ok>>
      [] e.fn = "un_autoload" ->
           /\ dynstack' = d
           /\ ev' = Ev("un_autoload", "", mode, Len(Vautoload_queue.recs), 0,
                       Snap, <<>>, <<>>)
           /\ UNCHANGED <<redirect, symval, specpdl, handlerlist, pc, target,
                          uval, ran,
                          blv, cells, buffers, buffer_defaults, found_ok>>
      [] e.fn = "f_log" ->
           /\ ran' = [ran EXCEPT ![e.gi] = @ + 1]
           /\ dynstack' = d
           /\ ev' = Ev("cleanup", e.fn, mode, e.gi, 0, NoSnap, <<>>, <<>>)
           /\ UNCHANGED <<redirect, symval, specpdl, handlerlist, pc, target,
                          uval,
                          blv, cells, buffers, buffer_defaults, found_ok>>
      [] OTHER ->
           LET s == Fsignal(handlerlist, Obj("error", "cleanup", Qnil, mode))
           IN /\ ran' = [ran EXCEPT ![e.gi] = @ + 1]
              /\ dynstack' = d
              /\ Go(s)
              /\ ev' = Ev("signal", "error", "cleanup", e.gi, Len(d), NoSnap,
                          handlerlist, s.sigs)
              /\ UNCHANGED <<redirect, symval, specpdl, handlerlist,
                             blv, cells, buffers, buffer_defaults, found_ok>>

(* scm_dynwind_end: take entries off down to the frame, running the     *)
(* unwind handlers registered with SCM_F_WIND_EXPLICITLY.  When the     *)
(* frame is icc_thunk's, call_with_prompt returns next and its prompt   *)
(* goes too.                                                            *)
StepEnd ==
    /\ pc = "end"
    /\ LET e == Top(dynstack)
           d == Pop(dynstack)
       IN CASE e.k = "winder" /\ e.explicit ->
                 /\ RunWinder(e, d, "end")
                 /\ UNCHANGED result
            [] e.k = "winder" /\ ~e.explicit ->
                 /\ dynstack' = d
                 /\ ev' = Ev("drop", e.fn, "end", e.gi, 0, NoSnap, <<>>, <<>>)
                 /\ UNCHANGED <<redirect, symval, specpdl, handlerlist, pc,
                                target, uval, result, ran,
                                blv, cells, buffers, buffer_defaults, found_ok>>
            [] e.k = "frame" /\ e.fn = "icc" ->
                 /\ dynstack' = Pop(d)
                 /\ pc' = Resume(Pop(d))
                 /\ result' = IF e.chain THEN result ELSE Qnil
                 /\ ev' = Ev("exit", ExitKind(Top(d).fn),
                             "normal", 0, 0, Top(d).snap, Top(d).hl, <<>>)
                 /\ UNCHANGED <<redirect, symval, specpdl, handlerlist, target,
                                uval, ran,
                                blv, cells, buffers, buffer_defaults, found_ok>>
            [] e.k = "frame" /\ e.fn = "handler" ->
                 /\ dynstack' = d
                 /\ pc' = Resume(d)
                 /\ result' = Fprogn(e.hl[1].body)
                 /\ ev' = Ev("exit", "handler", "normal", 0, 0, e.snap, e.hl,
                             <<>>)
                 /\ UNCHANGED <<redirect, symval, specpdl, handlerlist, target,
                                uval, ran,
                                blv, cells, buffers, buffer_defaults, found_ok>>
            [] e.k = "frame" /\ e.fn = "debugger" ->
                 LET w == Top(signaling)
                     s == Fsignal_transfer(w.hl, w.e)
                 IN /\ dynstack' = d
                    /\ IF debugger_returned(w.e)
                       THEN /\ pc' = "run"
                            /\ result' = Qnil
                            /\ ev' = Ev("return", "Fsignal", w.e.car, e.gi,
                                        Len(d), e.snap, w.hl, <<>>)
                            /\ UNCHANGED <<target, uval>>
                       ELSE /\ Go(s)
                            /\ ev' = Ev("transfer", "Fsignal", w.e.car, e.gi,
                                        Len(d), e.snap, w.hl, s.sigs)
                            /\ UNCHANGED result
                    /\ UNCHANGED <<redirect, symval, specpdl, handlerlist, ran,
                                   blv, cells, buffers, buffer_defaults,
                                   found_ok>>
            [] e.k = "frame" /\ e.fn = "autoload" ->
                 LET s == Fsignal(handlerlist,
                                  Obj("error", "", Qnil, "autoload"))
                 IN /\ dynstack' = d
                    /\ IF symbol_function[FnNames[e.gi]] = AutoloadObject
                       THEN /\ Go(s)
                            /\ ev' = Ev("exit", "autoload", "normal", e.gi, 0,
                                        e.snap, handlerlist, s.sigs)
                            /\ UNCHANGED result
                       ELSE /\ pc' = "run"
                            /\ result' = symbol_function[FnNames[e.gi]]
                            /\ ev' = Ev("exit", "autoload", "normal", e.gi, 0,
                                        e.snap, <<>>, <<>>)
                            /\ UNCHANGED <<target, uval>>
                    /\ UNCHANGED <<redirect, symval, specpdl, handlerlist, ran,
                                   blv, cells, buffers, buffer_defaults,
                                   found_ok>>
            [] OTHER ->
                 /\ dynstack' = d
                 /\ pc' = "run"
                 /\ ev' = Ev("exit", "dynwind", "normal", 0, 0, e.snap, <<>>,
                             <<>>)
                 /\ UNCHANGED <<redirect, symval, specpdl, handlerlist, target,
                                uval, result, ran,
                                blv, cells, buffers, buffer_defaults, found_ok>>
    /\ UNCHANGED <<alias, constant, specpdl_size, ncleanups, ncalls, iv,
                   current_buffer>>
    /\ UNCHANGED cvars
    /\ RunUnAutoload
    /\ LeaveDebugger

(* abort-to-prompt: take entries off down to the prompt `target',       *)
(* running every unwind handler.  At the prompt a catch returns the     *)
(* value (icc_handler with Fidentity) and a condition-case enters       *)
(* icc_lisp_handler, which opens a dynwind context for the clause.      *)
StepUnwind ==
    /\ pc = "unwind"
    /\ IF dynstack = <<>>
       THEN /\ pc' = "guile-error"
            /\ ev' = Ev("crash", "", "unwind", 0, 0, NoSnap, <<>>, <<>>)
            /\ UNCHANGED <<redirect, symval, specpdl, handlerlist, dynstack,
                           target, uval, result, ran,
                           blv, cells, buffers, buffer_defaults, found_ok>>
       ELSE LET e == Top(dynstack)
                d == Pop(dynstack)
                what == ExitKind(e.fn)
            IN CASE e.k = "winder" ->
                      /\ RunWinder(e, d, "unwind")
                      /\ UNCHANGED result
                 [] e.k = "frame" ->
                      /\ dynstack' = d
                      /\ ev' = IF e.fn = "icc"
                               THEN Ev("pass", "", "", 0, 0, NoSnap, <<>>, <<>>)
                               ELSE Ev("exit", e.fn, "nonlocal", e.gi, 0, e.snap,
                                       e.hl, <<>>)
                      /\ UNCHANGED <<redirect, symval, specpdl, handlerlist,
                                     pc, target, uval, result, ran,
                                     blv, cells, buffers, buffer_defaults, found_ok>>
                 [] e.k = "prompt" /\ e.ptag # target ->
                      /\ dynstack' = d
                      /\ ev' = Ev("exit", what, "nonlocal", 0, 0, e.snap, e.hl,
                                  <<>>)
                      /\ UNCHANGED <<redirect, symval, specpdl, handlerlist,
                                     pc, target, uval, result, ran,
                                     blv, cells, buffers, buffer_defaults, found_ok>>
                 [] e.k = "prompt" /\ e.ptag = target /\ e.fn = "identity" ->
                      /\ dynstack' = d
                      /\ pc' = Resume(d)
                      /\ result' = uval.val
                      /\ ev' = Ev("exit", what, "caught", 0, 0, e.snap, e.hl,
                                  <<>>)
                      /\ UNCHANGED <<redirect, symval, specpdl, handlerlist,
                                     target, uval, ran,
                                     blv, cells, buffers, buffer_defaults, found_ok>>
                 [] e.k = "prompt" /\ e.ptag = target /\ e.fn = "hfun" ->
                      /\ dynstack' = d
                      /\ pc' = Resume(d)
                      /\ result' = hfun(uval)
                      /\ ev' = Ev("exit", what, "caught", 0, 0, e.snap, e.hl,
                                  <<>>)
                      /\ UNCHANGED <<redirect, symval, specpdl, handlerlist,
                                     target, uval, ran,
                                     blv, cells, buffers, buffer_defaults, found_ok>>
                 [] OTHER ->
                      /\ dynstack' = Append(d, [Frame("handler", Snap, FALSE)
                                                  EXCEPT !.hl = e.hl])
                      /\ pc' = IF e.hl[1].var = "nil" THEN "run" ELSE "bind"
                      /\ ev' = Ev("exit", what, "caught", 0, 0, e.snap, e.hl,
                                  <<>>)
                      /\ UNCHANGED <<redirect, symval, specpdl, handlerlist,
                                     target, uval, result, ran,
                                     blv, cells, buffers, buffer_defaults, found_ok>>
    /\ UNCHANGED <<alias, constant, specpdl_size, ncleanups, ncalls, iv,
                   current_buffer>>
    /\ UNCHANGED cvars
    /\ RunUnAutoload
    /\ LeaveDebugger

(* icc_lisp_handler binds the clause's variable to the error object.    *)
StepBind ==
    /\ pc = "bind"
    /\ ApplySpecbind(Top(dynstack).hl[1].var, HandlerValue(uval), dynstack,
                     "handler")
    /\ UNCHANGED <<alias, constant, handlerlist, result, ncleanups, ran,
                   ncalls, iv,
                   current_buffer>>
    /\ UNCHANGED cvars
    /\ UNCHANGED avars
    /\ UNCHANGED dvars

(* ------------------------------------------------------------------ *)
(* eval.c: the debugger                                                 *)
(* ------------------------------------------------------------------ *)
(* The max_lisp_eval_depth call_debugger runs the debugger with.        *)
call_debugger_limits(depth, maxdepth) ==
    IF depth + DebuggerEvalMargin > maxdepth
    THEN depth + DebuggerEvalMargin
    ELSE maxdepth

(* call_debugger, called by maybe_call_debugger from Fsignal, up to its *)
(* first specbind.  The frame's gi is history: max_lisp_eval_depth as   *)
(* the call found it.                                                   *)
CallDebugger(redisplaying_p) ==
    /\ pc = "debugger"
    /\ Depth < MaxDepth
    /\ dynstack' =
           dynstack \o
           << [Frame("debugger", Snap, FALSE) EXCEPT !.gi = max_lisp_eval_depth],
              [record_unwind_protect("restore_stack_limits", max_lisp_eval_depth)
                 EXCEPT !.ptag = max_specpdl_size] >>
    /\ max_lisp_eval_depth' =
           call_debugger_limits(lisp_eval_depth, max_lisp_eval_depth)
    /\ when_entered_debugger' = num_nonmacro_input_events
    /\ signaling' = Append(signaling,
                           [e |-> uval, hl |-> handlerlist,
                            debug_while_redisplaying |-> redisplaying_p])
    /\ pc' = "debugger1"
    /\ ev' = Ev("call_debugger", uval.car, "", Len(specpdl), lisp_eval_depth,
                Snap, handlerlist, <<>>)
    /\ UNCHANGED <<redirect, alias, constant, symval, specpdl, specpdl_size,
                   handlerlist, target, uval, result, ncleanups, ran, ncalls,
                   iv, blv, cells, buffers, buffer_defaults, found_ok,
                   current_buffer>>
    /\ UNCHANGED <<lisp_eval_depth, num_nonmacro_input_events, Vdebug_on_error,
                   debug_on_quit, Vdebug_on_signal,
                   Vdebug_ignored_errors>>
    /\ UNCHANGED cvars
    /\ UNCHANGED avars

(* The variable and the value of call_debugger's specbind at pc.        *)
DebuggerBinding(at, debug_while_redisplaying) ==
    CASE at = "debugger1" ->
           <<SymDMC, IF debug_while_redisplaying THEN Qnil ELSE Qt>>
      [] at = "debugger2" -> <<SymIR, Qnil>>
      [] OTHER -> <<SymID, Qt>>

(* One of call_debugger's three specbinds; after the last the debugger  *)
(* function runs.                                                       *)
StepDebuggerBind ==
    /\ pc \in {"debugger1", "debugger2", "debugger3"}
    /\ LET b == DebuggerBinding(pc, Top(signaling).debug_while_redisplaying)
       IN ApplySpecbind(b[1], b[2], dynstack, pc)
    /\ UNCHANGED <<alias, constant, handlerlist, result, ncleanups, ran,
                   ncalls, iv, current_buffer>>
    /\ UNCHANGED dvars
    /\ UNCHANGED cvars
    /\ UNCHANGED avars

(* An input event that is no part of a keyboard macro is read.          *)
DoReadChar ==
    /\ pc = "run"
    /\ ncalls < MaxCalls
    /\ ncalls' = ncalls + 1
    /\ num_nonmacro_input_events < MaxInputs
    /\ num_nonmacro_input_events' = num_nonmacro_input_events + 1
    /\ ev' = Ev("read_char", "", "", num_nonmacro_input_events', 0, NoSnap,
                <<>>, <<>>)
    /\ UNCHANGED <<redirect, alias, constant, symval, specpdl, specpdl_size,
                   handlerlist, dynstack, pc, target, uval, result, ncleanups,
                   ran, iv, blv, cells, buffers, buffer_defaults, found_ok,
                   current_buffer>>
    /\ UNCHANGED <<max_lisp_eval_depth, lisp_eval_depth, when_entered_debugger,
                   Vdebug_on_error, debug_on_quit, Vdebug_on_signal,
                   Vdebug_ignored_errors, signaling>>
    /\ UNCHANGED cvars
    /\ UNCHANGED avars

(* ------------------------------------------------------------------ *)
(* eval.c: funcall_lambda                                               *)
(* ------------------------------------------------------------------ *)
(* The lambda lists of the functions called, which are lambda forms     *)
(* without a lexical environment: every parameter is bound with         *)
(* specbind.  The last one has a constant among its parameters.         *)
LambdaLists ==
    << <<>>,
       <<SymA, SymB>>,
       <<SymA, "&optional", SymB>>,
       <<SymA, "&rest", SymB>>,
       <<"&optional", SymA, "&rest", SymB>>,
       <<SymA, SymK>> >>

MaxArgs == 3          \* actual arguments of a call

(* The actual arguments of a call with nargs arguments.                 *)
arg_vector == [j \in 1..MaxArgs |-> j]

(* funcall_lambda up to its loop over syms_left.                        *)
DoFuncallLambda(fun, nargs) ==
    /\ pc = "run"
    /\ ncalls < MaxCalls
    /\ ncalls' = ncalls + 1
    /\ Depth < MaxDepth
    /\ dynstack' = Append(dynstack, Frame("funcall", Snap, FALSE))
    /\ funcall' = [fun |-> fun, nargs |-> nargs,
                   syms_left |-> LambdaLists[fun], i |-> 0,
                   optional |-> FALSE, rest |-> FALSE]
    /\ pc' = "params"
    /\ ev' = Ev("begin", "funcall", "", fun, nargs, NoSnap, <<>>, <<>>)
    /\ UNCHANGED <<redirect, alias, constant, symval, specpdl, specpdl_size,
                   handlerlist, target, uval, result, ncleanups, ran, iv,
                   blv, cells, buffers, buffer_defaults, found_ok,
                   current_buffer>>
    /\ UNCHANGED avars
    /\ UNCHANGED dvars

(* funcall_lambda signaling: xsignal2 (Qwrong_number_of_arguments, ...) *)
FuncallSignal ==
    LET s == Fsignal(handlerlist,
                     Obj("wrong-number-of-arguments", "", funcall.nargs,
                         "funcall"))
    IN /\ Go(s)
       /\ ev' = Ev("signal", "wrong-number-of-arguments", "funcall",
                   funcall.fun, funcall.nargs, NoSnap, handlerlist, s.sigs)
       /\ UNCHANGED <<redirect, symval, specpdl, specpdl_size, dynstack,
                      funcall, blv, cells, buffers, buffer_defaults, found_ok>>

(* One turn of funcall_lambda's loop over syms_left, and what follows   *)
(* the loop: the check that no actual is left over, after which the     *)
(* body runs.                                                           *)
StepParam ==
    /\ pc = "params"
    /\ IF funcall.syms_left = <<>>
       THEN IF funcall.i < funcall.nargs
            THEN FuncallSignal
            ELSE /\ pc' = "run"
                 /\ ev' = Ev("body", "funcall", "", funcall.fun, funcall.nargs,
                             NoSnap, <<>>, <<>>)
                 /\ UNCHANGED <<redirect, symval, specpdl, specpdl_size,
                                dynstack, target, uval, funcall,
                                blv, cells, buffers, buffer_defaults, found_ok>>
       ELSE LET next == Head(funcall.syms_left)
                left == [funcall EXCEPT !.syms_left = Tail(@)]
            IN CASE next = "&rest" ->
                      /\ funcall' = [left EXCEPT !.rest = TRUE]
                      /\ ev' = Ev("marker", next, "", 0, 0, NoSnap, <<>>, <<>>)
                      /\ UNCHANGED <<redirect, symval, specpdl, specpdl_size,
                                     dynstack, pc, target, uval,
                                     blv, cells, buffers, buffer_defaults,
                                     found_ok>>
                 [] next = "&optional" ->
                      /\ funcall' = [left EXCEPT !.optional = TRUE]
                      /\ ev' = Ev("marker", next, "", 0, 0, NoSnap, <<>>, <<>>)
                      /\ UNCHANGED <<redirect, symval, specpdl, specpdl_size,
                                     dynstack, pc, target, uval,
                                     blv, cells, buffers, buffer_defaults,
                                     found_ok>>
                 [] funcall.rest ->
                      /\ funcall' = [left EXCEPT !.i = funcall.nargs]
                      /\ ApplySpecbind(next,
                                       Flist(funcall.nargs - funcall.i,
                                             SubSeq(arg_vector, funcall.i + 1,
                                                    funcall.nargs)),
                                       dynstack, "funcall")
                 [] funcall.i < funcall.nargs ->
                      /\ funcall' = [left EXCEPT !.i = @ + 1]
                      /\ ApplySpecbind(next, arg_vector[funcall.i + 1],
                                       dynstack, "funcall")
                 [] ~funcall.optional -> FuncallSignal
                 [] OTHER ->
                      /\ funcall' = left
                      /\ ApplySpecbind(next, Qnil, dynstack, "funcall")
    /\ UNCHANGED <<alias, constant, handlerlist, result, ncleanups, ran,
                   ncalls, iv, current_buffer>>
    /\ UNCHANGED avars
    /\ UNCHANGED dvars

Next ==
    \/ DoDynwindBegin
    \/ \E b \in BindInputs : DoSpecbind(b[1], b[2])
    \/ \E f \in Cleanups : DoRecordUnwindProtect(f)
    \/ \E t \in CatchTags : DoInternalCatch(t)
    \/ \E f \in 1..Len(CcForms) : DoConditionCase(f)
    \/ \E t \in ThrowTags, v \in ThrowVals : DoThrow(t, v)
    \/ \E e \in SignalErrs : DoSignal(e)
    \/ DoDynwindEnd
    \/ StepEnd
    \/ StepUnwind
    \/ StepBind

Spec == Init /\ [][Next]_vars

(* ------------------------------------------------------------------ *)
(* Calls of lambda forms, inside handlers that take their errors.       *)
(* ------------------------------------------------------------------ *)
CallLets == {<<SymC, 2>>}

NextCall ==
    \/ \E h \in CondHandlers : DoInternalConditionCase(h)
    \/ \E f \in 1..Len(LambdaLists), n \in 0..MaxArgs : DoFuncallLambda(f, n)
    \/ StepParam
    \/ \E b \in CallLets : DoSpecbind(b[1], b[2])
    \/ DoDynwindEnd
    \/ StepEnd
    \/ StepUnwind

SpecCall == Init /\ [][NextCall]_vars

(* ------------------------------------------------------------------ *)
(* Autoloads: the file loaded defines functions and provides features,  *)
(* autoloads further functions, and completes or signals.               *)
(* ------------------------------------------------------------------ *)
LoadErrs == {"arith-error"}

NextLoad ==
    \/ \E h \in CondHandlers : DoInternalConditionCase(h)
    \/ \E f \in FnSyms : DoAutoloadDoLoad(f)
    \/ \E f \in FnSyms, d \in Definitions : DoFset(f, d)
    \/ \E x \in Features : DoProvide(x)
    \/ \E e \in LoadErrs : DoSignal(e)
    \/ DoDynwindEnd
    \/ StepEnd
    \/ StepUnwind

SpecLoad == Init /\ [][NextLoad]_vars

(* ------------------------------------------------------------------ *)
(* Handlers set up by C code and by Lisp, and signals of every kind.    *)
(* my-signal has no error-conditions property.                          *)
(* ------------------------------------------------------------------ *)
AllSignalErrs == SignalErrs \cup {"quit", "my-signal"}

NextCond ==
    \/ \E t \in CatchTags : DoInternalCatch(t)
    \/ \E f \in 1..Len(CcForms) : DoConditionCase(f)
    \/ \E h \in CondHandlers : DoInternalConditionCase(h)
    \/ \E t \in ThrowTags, v \in ThrowVals : DoThrow(t, v)
    \/ \E e \in AllSignalErrs : DoSignal(e)
    \/ \E f \in Cleanups : DoRecordUnwindProtect(f)
    \/ DoDynwindEnd
    \/ StepEnd
    \/ StepUnwind
    \/ StepBind

SpecCond == Init /\ [][NextCond]_vars

(* ------------------------------------------------------------------ *)
(* The debugger: errors and quits signaled with the debugger enabled,   *)
(* inside and outside handlers, and the debugger function running any   *)
(* of the calls itself.                                                 *)
(* ------------------------------------------------------------------ *)
DebugHandlers ==
    CondHandlers \cup {[tag |-> "", ch |-> <<"debug", "arith-error">>]}
DebugErrs == {"arith-error", "quit"}
DebugLets == {<<SymA, 1>>}

(* What the user has set debug-on-error, debug-on-quit, debug-on-signal *)
(* and max-specpdl-size to, and the depth of evaluation the program     *)
(* runs at.                                                             *)
DebugSetting(on_error, on_quit, on_signal, maxpdl, depth) ==
    [on_error |-> on_error, on_quit |-> on_quit, on_signal |-> on_signal,
     maxpdl |-> maxpdl, depth |-> depth]
DebugSettings ==
    {DebugSetting(DebugOn("t", <<>>), TRUE, Qnil, MaxSpecpdlSize, 0),
     DebugSetting(DebugOn("t", <<>>), FALSE, Qt, InitMaxSpecpdlSize,
                  InitMaxLispEvalDepth - 10),
     DebugSetting(DebugOn("", <<"arith-error">>), TRUE, Qnil,
                  MaxSpecpdlSize, InitMaxLispEvalDepth - 10),
     DebugSetting(DebugOn("nil", <<>>), TRUE, Qt, InitMaxSpecpdlSize, 0)}

InitDebug ==
    /\ \E u \in DebugSettings :
          /\ InitSymbolsMax(Qunbound, u.maxpdl)
          /\ lisp_eval_depth = u.depth
          /\ Vdebug_on_error = u.on_error
          /\ debug_on_quit = u.on_quit
          /\ Vdebug_on_signal = u.on_signal
    /\ InitBuffers
    /\ specpdl = <<>>
    /\ specpdl_size = InitSpecpdlSize
    /\ handlerlist = <<handlerlist_sentinel>>
    /\ dynstack = <<>>
    /\ pc = "run"
    /\ target = 0
    /\ uval = NoObj
    /\ result = Qnil
    /\ ncleanups = 0
    /\ ran = [i \in 1..MaxCleanups |-> 0]
    /\ ev = NoEv
    /\ ncalls = 0
    /\ iv = IvIdle
    /\ InitCall
    /\ max_lisp_eval_depth = InitMaxLispEvalDepth
    /\ when_entered_debugger = -1
    /\ num_nonmacro_input_events = 0
    /\ signaling = <<>>
    /\ Vdebug_ignored_errors = <<>>

NextDebug ==
    \/ \E h \in DebugHandlers : DoInternalConditionCase(h)
    \/ \E e \in DebugErrs : DoSignal(e)
    \/ \E b \in DebugLets : DoSpecbind(b[1], b[2])
    \/ DoReadChar
    \/ \E r \in BOOLEAN : CallDebugger(r)
    \/ StepDebuggerBind
    \/ DoDynwindEnd
    \/ StepEnd
    \/ StepUnwind

SpecDebug == InitDebug /\ [][NextDebug]_vars

(* ------------------------------------------------------------------ *)
(* The debugger function binding variables under handlers of its own.   *)
(* A run is followed for MaxDebuggerCalls calls: the count of calls     *)
(* starts that much short of MaxCalls.                                  *)
(* ------------------------------------------------------------------ *)
MaxDebuggerCalls == 7
InhibitLets == {<<SymK, 1>>}

InitInhibit ==
    /\ InitSymbolsMax(Qunbound, MaxSpecpdlSize)
    /\ InitBuffers
    /\ specpdl = <<>>
    /\ specpdl_size = InitSpecpdlSize
    /\ handlerlist = <<handlerlist_sentinel>>
    /\ dynstack = <<>>
    /\ pc = "run"
    /\ target = 0
    /\ uval = NoObj
    /\ result = Qnil
    /\ ncleanups = 0
    /\ ran = [i \in 1..MaxCleanups |-> 0]
    /\ ev = NoEv
    /\ ncalls = MaxCalls - MaxDebuggerCalls
    /\ iv = IvIdle
    /\ InitCall
    /\ max_lisp_eval_depth = InitMaxLispEvalDepth
    /\ lisp_eval_depth = 0
    /\ when_entered_debugger = -1
    /\ num_nonmacro_input_events = 0
    /\ Vdebug_on_error = DebugOn("t", <<>>)
    /\ debug_on_quit = FALSE
    /\ Vdebug_on_signal = Qnil
    /\ signaling = <<>>
    /\ Vdebug_ignored_errors = <<>>

NextInhibit ==
    \/ DoInternalConditionCase([tag |-> "error", ch |-> <<>>])
    \/ \E e \in LoadErrs : DoSignal(e)
    \/ \E b \in InhibitLets : DoSpecbind(b[1], b[2])
    \/ CallDebugger(FALSE)
    \/ StepDebuggerBind
    \/ DoDynwindEnd
    \/ StepEnd
    \/ StepUnwind

SpecInhibit == InitInhibit /\ [][NextInhibit]_vars

(* ------------------------------------------------------------------ *)
(* The debugger's policy: signals of every kind, memory-full among      *)
(* them, with debug-ignored-errors set and inhibit-debugger let-bound.  *)
(* ------------------------------------------------------------------ *)
(* memory_full's signal: xsignal (Qnil, Vmemory_signal_data), where the *)
(* data is (error "Memory exhausted ...").                              *)
DoMemoryFull ==
    /\ pc = "run"
    /\ ncalls < MaxCalls
    /\ ncalls' = ncalls + 1
    /\ LET o == Fsignal(handlerlist, Obj("nil", "error", Qnil, "run"))
       IN /\ Go(o)
          /\ ev' = Ev("signal", "nil", "lisp", 0, Len(dynstack), NoSnap,
                      handlerlist, o.sigs)
    /\ UNCHANGED <<redirect, alias, constant, symval, specpdl, specpdl_size,
                   handlerlist, dynstack, result, ncleanups, ran, iv,
                   blv, cells, buffers, buffer_defaults, found_ok, current_buffer>>
    /\ UNCHANGED cvars
    /\ UNCHANGED avars
    /\ UNCHANGED dvars

(* An element of debug-ignored-errors: a regexp or a condition name.    *)
Ignored(stringp, x) == [stringp |-> stringp, x |-> x]

PolicyErrs == {"arith-error", "wrong-type-argument", "quit"}
PolicyLets == {<<SymID, Qt>>}

(* What the user has set debug-on-error, debug-on-quit, debug-on-signal *)
(* and debug-ignored-errors to.                                         *)
PolicySetting(on_error, on_quit, on_signal, ignored) ==
    [on_error |-> on_error, on_quit |-> on_quit, on_signal |-> on_signal,
     ignored |-> ignored]
PolicySettings ==
    {PolicySetting(DebugOn("t", <<>>), TRUE, Qnil, <<>>),
     PolicySetting(DebugOn("t", <<>>), FALSE, Qt,
                   <<Ignored(FALSE, "arith-error")>>),
     PolicySetting(DebugOn("t", <<>>), TRUE, Qnil,
                   <<Ignored(TRUE, "Wrong type argument")>>),
     PolicySetting(DebugOn("", <<"error">>), FALSE, Qt, <<>>)}

InitPolicy ==
    /\ \E u \in PolicySettings :
          /\ Vdebug_on_error = u.on_error
          /\ debug_on_quit = u.on_quit
          /\ Vdebug_on_signal = u.on_signal
          /\ Vdebug_ignored_errors = u.ignored
    /\ InitSymbolsMax(Qunbound, MaxSpecpdlSize)
    /\ InitBuffers
    /\ specpdl = <<>>
    /\ specpdl_size = InitSpecpdlSize
    /\ handlerlist = <<handlerlist_sentinel>>
    /\ dynstack = <<>>
    /\ pc = "run"
    /\ target = 0
    /\ uval = NoObj
    /\ result = Qnil
    /\ ncleanups = 0
    /\ ran = [i \in 1..MaxCleanups |-> 0]
    /\ ev = NoEv
    /\ ncalls = 0
    /\ iv = IvIdle
    /\ InitCall
    /\ max_lisp_eval_depth = InitMaxLispEvalDepth
    /\ lisp_eval_depth = 0
    /\ when_entered_debugger = -1
    /\ num_nonmacro_input_events = 0
    /\ signaling = <<>>

NextPolicy ==
    \/ \E h \in DebugHandlers : DoInternalConditionCase(h)
    \/ \E e \in PolicyErrs : DoSignal(e)
    \/ DoMemoryFull
    \/ \E b \in PolicyLets : DoSpecbind(b[1], b[2])
    \/ DoReadChar
    \/ CallDebugger(FALSE)
    \/ StepDebuggerBind
    \/ DoDynwindEnd
    \/ StepEnd
    \/ StepUnwind

SpecPolicy == InitPolicy /\ [][NextPolicy]_vars

(* ------------------------------------------------------------------ *)
(* Variable aliases: defvaralias builds alias chains, and calls of      *)
(* indirect_variable are followed pass by pass.                         *)
(* ------------------------------------------------------------------ *)
(* Fdefvaralias's outcome when it changes neither alias nor constant.   *)
defvaralias_keep(err, st) ==
    [err |-> err, st |-> st, alias |-> alias, constant |-> constant]

(* Fdefvaralias once the base variable has a value; w is the outcome of *)
(* giving it one.                                                       *)
defvaralias_link(new_alias, base_variable, w) ==
    IF w.err # ""
    THEN defvaralias_keep(w.err, w.st)
    ELSE IF \E i \in 1..Len(specpdl) : specpdl[i].symbol = new_alias
    THEN defvaralias_keep("error", w.st)
    ELSE [err |-> "",
          st |-> [w.st EXCEPT !.red[new_alias] = "VARALIAS"],
          alias |-> [alias EXCEPT ![new_alias] = base_variable],
          constant |-> [constant EXCEPT
                          ![new_alias] = constant[base_variable]]]

(* Fdefvaralias leaving an unbound base variable unbound.               *)
defvaralias_copy_nothing(new_alias, base_variable, nv) ==
    defvaralias_link(new_alias, base_variable, [err |-> "", st |-> nv.st])

(* Fdefvaralias giving an unbound base variable the alias's value, nv.  *)
defvaralias_copy(new_alias, base_variable, nv) ==
    IF nv.err # ""
    THEN defvaralias_keep(nv.err, nv.st)
    ELSE defvaralias_link(
             new_alias, base_variable,
             set_internal(nv.st, base_variable, nv.val, "nil", TRUE))

(* Fdefvaralias from the test of the base variable on; bound is         *)
(* Fboundp's outcome.                                                   *)
defvaralias_bound(new_alias, base_variable, bound) ==
    IF bound.err # ""
    THEN defvaralias_keep(bound.err, bound.st)
    ELSE IF bound.val
    THEN defvaralias_link(new_alias, base_variable,
                          [err |-> "", st |-> bound.st])
    ELSE defvaralias_copy(new_alias, base_variable,
                          find_symbol_value(bound.st, new_alias))

(* Fdefvaralias: the error it signals and the cells, alias links and    *)
(* constant flags it leaves.                                            *)
Fdefvaralias(new_alias, base_variable) ==
    IF constant[new_alias] \/ redirect[new_alias] \in {"FORWARDED",
                                                       "LOCALIZED"}
    THEN defvaralias_keep("error", Store(symval, redirect))
    ELSE defvaralias_bound(new_alias, base_variable,
                           Fboundp(Store(symval, redirect), base_variable))

InitAlias ==
    /\ \E vb \in {Qunbound, Qnil} : InitSymbols(vb)
    /\ InitBuffers
    /\ specpdl = <<>>
    /\ specpdl_size = InitSpecpdlSize
    /\ handlerlist = <<handlerlist_sentinel>>
    /\ dynstack = <<>>
    /\ pc = "run"
    /\ target = 0
    /\ uval = NoObj
    /\ result = Qnil
    /\ ncleanups = 0
    /\ ran = [i \in 1..MaxCleanups |-> 0]
    /\ ev = NoEv
    /\ ncalls = 0
    /\ iv = IvIdle
    /\ InitCall
    /\ InitEval

(* An error of defvaralias leaves the function; what handles it is not  *)
(* part of this specification.                                          *)
DoDefvaralias(new_alias, base_variable) ==
    /\ iv.pc = "idle"
    /\ \E r \in {Fdefvaralias(new_alias, base_variable)} :
          /\ SetStore(r.st)
          /\ alias' = r.alias
          /\ constant' = r.constant
          /\ ev' = Ev("defvaralias", new_alias, r.err, 0, 0, NoSnap, <<>>, <<>>)
    /\ UNCHANGED <<specpdl, specpdl_size, handlerlist, dynstack, pc, target,
                   uval, result, ncleanups, ran, ncalls, iv,
                   current_buffer>>
    /\ UNCHANGED cvars
    /\ UNCHANGED avars
    /\ UNCHANGED dvars

IvCall(symbol) ==
    /\ iv.pc = "idle"
    /\ iv' = IvStart(symbol)
    /\ UNCHANGED <<redirect, alias, constant, symval, specpdl, specpdl_size,
                   handlerlist, dynstack, pc, target, uval, result, ncleanups,
                   ran, ev, ncalls,
                   blv, cells, buffers, buffer_defaults, found_ok, current_buffer>>
    /\ UNCHANGED cvars
    /\ UNCHANGED avars
    /\ UNCHANGED dvars

IvLoop ==
    /\ iv.pc = "loop"
    /\ iv' = IvStep(iv)
    /\ UNCHANGED <<redirect, alias, constant, symval, specpdl, specpdl_size,
                   handlerlist, dynstack, pc, target, uval, result, ncleanups,
                   ran, ev, ncalls,
                   blv, cells, buffers, buffer_defaults, found_ok, current_buffer>>
    /\ UNCHANGED cvars
    /\ UNCHANGED avars
    /\ UNCHANGED dvars

IvReturn ==
    /\ iv.pc \in {"done", "cyclic"}
    /\ iv' = IvIdle
    /\ ev' = Ev("indirect_variable", iv.pc,
                IF iv.pc = "done" THEN iv.hare ELSE iv.symbol, 0, 0, NoSnap,
                <<>>, <<>>)
    /\ UNCHANGED <<redirect, alias, constant, symval, specpdl, specpdl_size,
                   handlerlist, dynstack, pc, target, uval, result, ncleanups,
                   ran, ncalls,
                   blv, cells, buffers, buffer_defaults, found_ok, current_buffer>>
    /\ UNCHANGED cvars
    /\ UNCHANGED avars
    /\ UNCHANGED dvars

(* The symbols that alias chains are built from.                        *)
AliasSyms == {SymA, SymB, SymC, SymK, SymF}

NextAlias ==
    \/ \E n \in AliasSyms, b \in AliasSyms : DoDefvaralias(n, b)
    \/ \E s \in AliasSyms : IvCall(s)
    \/ IvLoop
    \/ IvReturn

SpecAlias == InitAlias /\ [][NextAlias]_vars

(* ------------------------------------------------------------------ *)
(* Buffer-local variables: a Lisp program that sets, reads, localizes   *)
(* and let-binds variables while the current buffer changes.            *)
(* ------------------------------------------------------------------ *)
SetInputs ==
    {<<SymA, 1>>, <<SymC, 2>>, <<SymF, 1>>, <<SymF, Qx>>, <<SymP, 1>>,
     <<SymK, 1>>, <<SymKw, Qkw>>, <<SymKw, 1>>}
SetDefaultInputs ==
    {<<SymA, 2>>, <<SymF, 2>>, <<SymF, Qx>>, <<SymP, 2>>, <<SymK, 1>>,
     <<SymKw, Qkw>>, <<SymKw, 1>>}
ReadInputs == {SymA, SymB, SymF, SymP}
MakeLocalInputs == {SymA, SymB, SymF, SymP, SymQ, SymK}
BufferLocalInputs == {SymA, SymP, SymQ, SymK}
FrameLocalInputs == {SymA, SymP, SymQ, SymK}
KillLocalInputs == {SymA, SymF, SymP}
LetInputs == {<<SymA, 1>>, <<SymF, 1>>, <<SymP, 1>>}
AliasInputs == {<<SymA, SymB>>, <<SymC, SymA>>, <<SymC, SymK>>}

(* A call of a function of data.c that left the store r.st and signaled *)
(* r.err, if any.  An error nobody handles ends the run.                *)
DataCall(op, symbol, value, r, m) ==
    /\ pc = "run"
    /\ ncalls < MaxCalls
    /\ ncalls' = ncalls + 1
    /\ SetStore(r.st)
    /\ IF r.err = ""
       THEN /\ ev' = Ev(op, symbol, "", value, m, NoSnap, <<>>, <<>>)
            /\ UNCHANGED <<pc, target, uval>>
       ELSE LET s == Fsignal(handlerlist, Obj(r.err, symbol, value, "run"))
            IN /\ Go(s)
               /\ ev' = Ev(op, symbol, r.err, value, Len(dynstack), NoSnap,
                           handlerlist, s.sigs)
    /\ UNCHANGED <<specpdl, specpdl_size, handlerlist, dynstack, ncleanups,
                   ran, iv, current_buffer>>
    /\ UNCHANGED cvars
    /\ UNCHANGED avars
    /\ UNCHANGED dvars

DoSet(symbol, newval) ==
    /\ DataCall("set", symbol, newval,
                Fset(Store(symval, redirect), symbol, newval), 0)
    /\ UNCHANGED <<alias, constant, result>>

DoSetDefault(symbol, value) ==
    /\ DataCall("set-default", symbol, value,
                Fset_default(Store(symval, redirect), symbol, value), 0)
    /\ UNCHANGED <<alias, constant, result>>

(* ev.m counts the reads of the symbol that went just before this one.  *)
DoSymbolValue(symbol) ==
    \E v \in {Fsymbol_value(Store(symval, redirect), symbol)} :
       /\ DataCall("symbol-value", symbol, v.val, v,
                   IF ev.op = "symbol-value" /\ ev.a = symbol /\ ev.b = ""
                   THEN ev.m + 1 ELSE 0)
       /\ result' = v.val
       /\ UNCHANGED <<alias, constant>>

DoMakeLocalVariable(variable) ==
    /\ DataCall("make-local-variable", variable, 0,
                Fmake_local_variable(Store(symval, redirect), variable), 0)
    /\ UNCHANGED <<alias, constant, result>>

DoMakeVariableBufferLocal(variable) ==
    /\ DataCall("make-variable-buffer-local", variable, 0,
                Fmake_variable_buffer_local(Store(symval, redirect), variable), 0)
    /\ UNCHANGED <<alias, constant, result>>

DoMakeVariableFrameLocal(variable) ==
    /\ DataCall("make-variable-frame-local", variable, 0,
                Fmake_variable_frame_local(Store(symval, redirect), variable), 0)
    /\ UNCHANGED <<alias, constant, result>>

DoKillLocalVariable(variable) ==
    /\ DataCall("kill-local-variable", variable, 0,
                Fkill_local_variable(Store(symval, redirect), variable), 0)
    /\ UNCHANGED <<alias, constant, result>>

(* The buffer collaborator makes another buffer current.                *)
DoSetBuffer(buffer) ==
    /\ pc = "run"
    /\ ncalls < MaxCalls
    /\ ncalls' = ncalls + 1
    /\ buffer # current_buffer
    /\ current_buffer' = buffer
    /\ ev' = Ev("set-buffer", buffer, "", 0, 0, NoSnap, <<>>, <<>>)
    /\ UNCHANGED <<redirect, alias, constant, symval, specpdl, specpdl_size,
                   handlerlist, dynstack, pc, target, uval, result, ncleanups,
                   ran, iv, blv, cells, buffers, buffer_defaults, found_ok>>
    /\ UNCHANGED cvars
    /\ UNCHANGED avars
    /\ UNCHANGED dvars

DoLocalDefvaralias(new_alias, base_variable) ==
    \E r \in {Fdefvaralias(new_alias, base_variable)} :
       /\ DataCall("defvaralias", new_alias, 0, r, 0)
       /\ alias' = r.alias
       /\ constant' = r.constant
       /\ UNCHANGED result

InitLocal ==
    /\ InitSymbols(Qunbound)
    /\ InitBuffers
    /\ specpdl = <<>>
    /\ specpdl_size = InitSpecpdlSize
    /\ handlerlist = <<handlerlist_sentinel>>
    /\ dynstack = <<>>
    /\ pc = "run"
    /\ target = 0
    /\ uval = NoObj
    /\ result = Qnil
    /\ ncleanups = 0
    /\ ran = [i \in 1..MaxCleanups |-> 0]
    /\ ev = NoEv
    /\ ncalls = 0
    /\ iv = IvIdle
    /\ InitCall
    /\ InitEval

NextLocal ==
    \/ \E i \in SetInputs : DoSet(i[1], i[2])
    \/ \E i \in SetDefaultInputs : DoSetDefault(i[1], i[2])
    \/ \E s \in ReadInputs : DoSymbolValue(s)
    \/ \E s \in MakeLocalInputs : DoMakeLocalVariable(s)
    \/ \E s \in BufferLocalInputs : DoMakeVariableBufferLocal(s)
    \/ \E s \in FrameLocalInputs : DoMakeVariableFrameLocal(s)
    \/ \E s \in KillLocalInputs : DoKillLocalVariable(s)
    \/ \E b \in Buffers : DoSetBuffer(b)
    \/ \E i \in AliasInputs : DoLocalDefvaralias(i[1], i[2])
    \/ DoDynwindBegin
    \/ \E b \in LetInputs : DoSpecbind(b[1], b[2])
    \/ DoDynwindEnd
    \/ StepEnd

SpecLocal == InitLocal /\ [][NextLocal]_vars

(* ------------------------------------------------------------------ *)
(* eval.c: the top-level default value                                  *)
(* ------------------------------------------------------------------ *)
(* default_toplevel_binding: the place on specpdl of the record the     *)
(* scan from the top down to the bottom finds last, 0 when it finds     *)
(* none.                                                                *)
default_toplevel_binding(symbol) ==
    LET m == {i \in 1..Len(specpdl) :
                 /\ specpdl[i].kind \in {"SPECPDL_LET_DEFAULT", "SPECPDL_LET"}
                 /\ specpdl[i].symbol = symbol}
    IN IF m = {} THEN 0 ELSE Min(m)

Fdefault_toplevel_value(st, symbol) ==
    LET binding == default_toplevel_binding(symbol)
    IN IF binding # 0
       THEN void_variable([err |-> "", val |-> specpdl[binding].old_value])
       ELSE Fdefault_value(st, symbol)

(* Fset_default_toplevel_value: the error, the store and the specpdl it *)
(* leaves.                                                              *)
Fset_default_toplevel_value(st, symbol, value) ==
    LET binding == default_toplevel_binding(symbol)
    IN IF binding # 0
       THEN [err |-> "", st |-> st,
             pdl |-> [specpdl EXCEPT ![binding].old_value = value]]
       ELSE [pdl |-> specpdl] @@ Fset_default(st, symbol, value)

DoDefaultToplevelValue(symbol) ==
    \E v \in {Fdefault_toplevel_value(Store(symval, redirect), symbol)} :
       /\ DataCall("default-toplevel-value", symbol, v.val,
                   [err |-> v.err, st |-> Store(symval, redirect)], 0)
       /\ result' = IF v.err = "" THEN v.val ELSE result
       /\ UNCHANGED <<alias, constant>>

DoSetDefaultToplevelValue(symbol, value) ==
    /\ pc = "run"
    /\ ncalls < MaxCalls
    /\ ncalls' = ncalls + 1
    /\ LET r == Fset_default_toplevel_value(Store(symval, redirect), symbol,
                                            value)
       IN /\ SetStore(r.st)
          /\ specpdl' = r.pdl
          /\ IF r.err = ""
             THEN /\ ev' = Ev("set-default-toplevel-value", symbol, "", value,
                              0, NoSnap, <<>>, <<>>)
                  /\ result' = Qnil
                  /\ UNCHANGED <<pc, target, uval>>
             ELSE LET s == Fsignal(handlerlist,
                                   Obj(r.err, symbol, value, "run"))
                  IN /\ Go(s)
                     /\ ev' = Ev("set-default-toplevel-value", symbol, r.err,
                                 value, Len(dynstack), NoSnap, handlerlist,
                                 s.sigs)
                     /\ UNCHANGED result
    /\ UNCHANGED <<alias, constant, specpdl_size, handlerlist, dynstack,
                   ncleanups, ran, iv, current_buffer>>
    /\ UNCHANGED cvars
    /\ UNCHANGED avars
    /\ UNCHANGED dvars

(* A Lisp program that reads and sets top-level default values inside   *)
(* and outside let-bindings, some of which fail and are caught.         *)
ToplevelLets == {<<SymA, 1>>, <<SymC, 1>>, <<SymP, 1>>, <<SymF, 1>>}
ToplevelSyms == {SymA, SymC, SymP}
ToplevelVals == {3}

NextToplevel ==
    \/ DoDynwindBegin
    \/ DoInternalCatch("top-level")
    \/ \E b \in ToplevelLets : DoSpecbind(b[1], b[2])
    \/ \E s \in ToplevelSyms : DoDefaultToplevelValue(s)
    \/ \E s \in ToplevelSyms, v \in ToplevelVals :
          DoSetDefaultToplevelValue(s, v)
    \/ DoSetDefault(SymA, 2)
    \/ DoSet(SymP, 1)
    \/ DoMakeVariableBufferLocal(SymA)
    \/ \E b \in Buffers : DoSetBuffer(b)
    \/ DoLocalDefvaralias(SymC, SymA)
    \/ DoDynwindEnd
    \/ StepEnd
    \/ StepUnwind

SpecToplevel == InitLocal /\ [][NextToplevel]_vars

(* ------------------------------------------------------------------ *)
(* eval.c: running hooks                                                *)
(* ------------------------------------------------------------------ *)
(* The functions put on hooks are known by the numbers 1 to 4; what     *)
(* each returns when called.                                            *)
HookFunctions == 1..4

Ffuncall(f) == CASE f = 2 -> 5 [] f = 4 -> Qt [] OTHER -> Qnil

funcall_nil(f) == Qnil

funcall_not(f) == IF Ffuncall(f) = Qnil THEN Qt ELSE Qnil

(* run-hooks is the value of Vrun_hooks once Emacs is up.               *)
Vrun_hooks == Qx

(* ret = funcall (nargs, args) with args[0] = f; calls is history, the  *)
(* functions called so far in order.                                    *)
hook_funcall(funcall_fn, f, r) ==
    [r EXCEPT !.ret = CASE funcall_fn = "funcall_nil" -> funcall_nil(f)
                        [] funcall_fn = "funcall_not" -> funcall_not(f)
                        [] OTHER -> Ffuncall(f),
              !.calls = Append(@, f)]

(* run_hook_with_args: the loop over the global value.                  *)
RECURSIVE run_hook_global_vals(_, _, _)
run_hook_global_vals(global_vals, funcall_fn, r) ==
    IF ListConsP(global_vals) /\ r.ret = Qnil
    THEN run_hook_global_vals(
             ListCdr(global_vals), funcall_fn,
             IF ListCar(global_vals) # Qt
             THEN hook_funcall(funcall_fn, ListCar(global_vals), r)
             ELSE r)
    ELSE r

(* run_hook_with_args passing over an element t of the value.           *)
run_hook_default_skip(d, funcall_fn, r) == r

(* run_hook_with_args at an element t of the value; d is what           *)
(* Fdefault_value gave.                                                 *)
run_hook_default(d, funcall_fn, r) ==
    IF d.err # ""
    THEN [r EXCEPT !.err = d.err]
    ELSE IF d.val = Qnil
    THEN r
    ELSE IF ~ListConsP(d.val)
    THEN hook_funcall(funcall_fn, d.val, r)
    ELSE run_hook_global_vals(d.val, funcall_fn, r)

(* run_hook_with_args: the loop over the value.                         *)
RECURSIVE run_hook_vals(_, _, _, _)
run_hook_vals(val, sym, funcall_fn, r) ==
    IF ListConsP(val) /\ r.ret = Qnil /\ r.err = ""
    THEN run_hook_vals(
             ListCdr(val), sym, funcall_fn,
             IF ListCar(val) = Qt
             THEN run_hook_default(Fdefault_value(r.st, sym), funcall_fn, r)
             ELSE hook_funcall(funcall_fn, ListCar(val), r))
    ELSE r

(* run_hook_with_args once find_symbol_value gave v.  No value here is  *)
(* a lambda form.                                                       *)
run_hook_value(v, sym, funcall_fn) ==
    LET r == [err |-> v.err, ret |-> Qnil, calls |-> <<>>, st |-> v.st]
    IN IF v.err # "" \/ v.val \in {Qunbound, Qnil}
       THEN r
       ELSE IF ~ListConsP(v.val)
       THEN hook_funcall(funcall_fn, v.val, r)
       ELSE run_hook_vals(v.val, sym, funcall_fn, r)

run_hook_with_args(st, sym, funcall_fn) ==
    IF Vrun_hooks = Qnil
    THEN [err |-> "", ret |-> Qnil, calls |-> <<>>, st |-> st]
    ELSE run_hook_value(find_symbol_value(st, sym), sym, funcall_fn)

(* Frun_hooks with one hook, which returns nil.                         *)
Frun_hooks(st, hook) ==
    [run_hook_with_args(st, hook, "funcall_nil") EXCEPT !.ret = Qnil]

Frun_hook_with_args(st, hook) == run_hook_with_args(st, hook, "funcall_nil")

Frun_hook_with_args_until_success(st, hook) ==
    run_hook_with_args(st, hook, "Ffuncall")

Frun_hook_with_args_until_failure(st, hook) ==
    [run_hook_with_args(st, hook, "funcall_not")
       EXCEPT !.ret = IF @ = Qnil THEN Qt ELSE Qnil]

HookRunners ==
    {"run-hooks", "run-hook-with-args", "run-hook-with-args-until-success",
     "run-hook-with-args-until-failure"}

RunHook(runner, st, hook) ==
    CASE runner = "run-hooks" -> Frun_hooks(st, hook)
      [] runner = "run-hook-with-args" -> Frun_hook_with_args(st, hook)
      [] runner = "run-hook-with-args-until-success" ->
             Frun_hook_with_args_until_success(st, hook)
      [] OTHER -> Frun_hook_with_args_until_failure(st, hook)

(* ev.n is the value returned and ev.m the list of the functions        *)
(* called, in order.                                                    *)
DoRunHook(runner, hook) ==
    \E r \in {RunHook(runner, Store(symval, redirect), hook)} :
       /\ DataCall(runner, hook, r.ret, r, Flist(Len(r.calls), r.calls))
       /\ result' = r.ret
       /\ UNCHANGED <<alias, constant>>

(* The hook variable and the values it and its default are given: nil,  *)
(* a function, and lists of functions and t.                            *)
HookSyms == {SymA}

HookVals ==
    {Qnil, 2, Flist(3, <<1, Qt, 3>>), Flist(2, <<Qt, 2>>),
     Flist(2, <<3, 4>>), Flist(3, <<4, Qt, 1>>)}

NextHook ==
    \/ \E h \in HookSyms, v \in HookVals : DoSet(h, v)
    \/ \E h \in HookSyms, v \in HookVals : DoSetDefault(h, v)
    \/ \E h \in HookSyms : DoMakeLocalVariable(h)
    \/ \E b \in Buffers : DoSetBuffer(b)
    \/ \E f \in HookRunners, h \in HookSyms : DoRunHook(f, h)

SpecHook == InitLocal /\ [][NextHook]_vars

(* ------------------------------------------------------------------ *)
(* Properties                                                           *)
(* ------------------------------------------------------------------ *)
(* The symbol reached from s by following at most k alias links.        *)
RECURSIVE Follow(_, _)
Follow(s, k) ==
    IF k = 0 \/ redirect[s] # "VARALIAS" THEN s ELSE Follow(alias[s], k - 1)

(* The alias chain of s ends in a symbol that is not an alias.          *)
ChainEnds(s) == redirect[Follow(s, Cardinality(Syms))] # "VARALIAS"

(* C10: indirect_variable terminates: its loop goes round at most as    *)
(* often as there are symbols; when the alias chain of its argument is  *)
(* acyclic it returns the non-alias symbol at the end of the chain, and *)
(* when the chain reaches a cycle, of any length, it signals            *)
(* cyclic-variable-indirection carrying its argument.                   *)
C10_IndirectVariableTerminates ==
    /\ iv.n <= Cardinality(Syms)
    /\ iv.pc = "done" =>
          /\ ChainEnds(iv.arg)
          /\ iv.hare = Follow(iv.arg, Cardinality(Syms))
    /\ iv.pc = "cyclic" => ~ChainEnds(iv.arg) /\ iv.symbol = iv.arg
    /\ iv.pc = "loop" /\ ~ChainEnds(iv.arg) => iv.n < Cardinality(Syms)

(* A call on a chain that enters a cycle of two symbols after its first *)
(* link has signaled.                                                   *)
C10_Witness ==
    /\ iv.pc = "cyclic"
    /\ alias[iv.arg] # iv.arg
    /\ Follow(alias[iv.arg], 2) = alias[iv.arg]
    /\ Follow(alias[iv.arg], 1) # alias[iv.arg]
    /\ Follow(iv.arg, 1) # iv.arg /\ Follow(iv.arg, 3) # iv.arg

(* ------------------------------------------------------------------ *)
(* Properties of the evaluator                                          *)
(* ------------------------------------------------------------------ *)
(* The binding stack and the variables are as the snapshot has them.    *)
(* max-specpdl-size is left out: grow_specpdl may raise it.             *)
Restored(snap) ==
    /\ SPECPDL_INDEX = snap.idx
    /\ \A s \in Syms \ {SymF} : symval[s] = snap.vals[s]

(* The cleanup with this id is still on the dynamic stack.              *)
Pending(id) ==
    \E i \in 1..Len(dynstack) :
        dynstack[i].k = "winder" /\ dynstack[i].fn \in Cleanups
        /\ dynstack[i].gi = id

(* Some binding record has no unbind_once registered for it.            *)
Leaked ==
    SPECPDL_INDEX # Cardinality({i \in 1..Len(dynstack) :
                                   dynstack[i].fn = "unbind_once"})

(* Clause i of the condition-case form names a condition of the error.  *)
ClauseApplies(form, i, error_symbol) ==
    LET cl == CcForms[form].handlers[i]
        named == IF cl.ch = <<>> THEN {cl.tag} ELSE Range(cl.ch)
    IN named \cap Range(ErrorConditions(error_symbol)) # {}

(* The handler applies to the error: a condition-case handler one of    *)
(* whose conditions is among the error's conditions.                    *)
Applies(h, error_symbol) ==
    /\ h.type = "CONDITION_CASE"
    /\ \/ Range(h.ch) \cap Range(ErrorConditions(error_symbol)) # {}
       \/ h.ch = <<>> /\ h.tag \in {"t", "error"}

(* C1: the specbind and record_unwind_protect calls of an extent are    *)
(* undone in the reverse of the order they were made: the unwind        *)
(* handlers run last-registered first, and each unbind_once restores    *)
(* the binding record written by the specbind that registered it.       *)
C1_UndoneInReverseOrder ==
    ev.op = "undo" => ev.n = ev.m

(* C2: when a cleanup signals during an unwind and a handler further    *)
(* out catches that signal, then on entry to the handler every binding  *)
(* made inside the handler's extent is undone and every cleanup that    *)
(* left the dynamic stack ran exactly once.                             *)
C2_SignalInCleanupUnwindsOnce ==
    (/\ ev.op = "exit" /\ ev.b = "caught"
     /\ uval.car = "error" /\ uval.tag = "cleanup" /\ uval.org = "unwind")
    => /\ Restored(ev.snap)
       /\ \A id \in 1..ncleanups :
             ran[id] = IF Pending(id) THEN 0 ELSE 1

(* C3: a cleanup registered with record_unwind_protect runs exactly     *)
(* once when its extent is left, by scm_dynwind_end, a throw or a       *)
(* handled signal, and never before: while it is on the dynamic stack   *)
(* it has not run, and once it is off it has run once.                  *)
C3_CleanupRunsExactlyOnce ==
    \A id \in 1..ncleanups : ran[id] = IF Pending(id) THEN 0 ELSE 1

(* A signal is unwinding and has just run a cleanup, which ran once.    *)
C3_Witness ==
    /\ ev.op = "cleanup" /\ ev.b = "unwind"
    /\ pc = "unwind" /\ uval.car = "arith-error"
    /\ ran[ev.n] = 1 /\ ~Pending(ev.n)

(* C4: when a throw to the tag of an internal_catch arrives, the catch  *)
(* returns the thrown value, handlerlist and SPECPDL_INDEX are what     *)
(* they were before the call, and the variables have their pre-catch    *)
(* values.                                                              *)
C4_CatchReturnsThrownValue ==
    (/\ ev.op = "exit" /\ ev.a = "catch" /\ ev.b = "caught"
     /\ uval.car = "value")
    => /\ result = uval.val
       /\ handlerlist = ev.snap.hl
       /\ Restored(ev.snap)

(* C5: Fthrow with a non-nil tag unwinds to the innermost catch of that *)
(* tag, never to a condition-case handler; with a nil tag or no such    *)
(* catch it unwinds nothing and signals no-catch with (tag value).      *)
C5_ThrowFindsInnermostCatch ==
    ev.op = "throw" =>
      IF /\ ev.a # "nil"
         /\ \E i \in 1..Len(ev.hl) :
               ev.hl[i].type = "CATCHER" /\ ev.hl[i].tag = ev.a
      THEN /\ pc = "unwind"
           /\ uval.car = "value" /\ uval.val = ev.n
           /\ ev.sigs = <<>>
           /\ \E i \in 1..Len(ev.hl) :
                 /\ ev.hl[i].type = "CATCHER" /\ ev.hl[i].tag = ev.a
                 /\ target = ev.hl[i].ptag
                 /\ \A j \in 1..(i - 1) :
                       ~(ev.hl[j].type = "CATCHER" /\ ev.hl[j].tag = ev.a)
      ELSE /\ Len(dynstack) = ev.m
           /\ ev.sigs # <<>>
           /\ ev.sigs[1].car = "no-catch"
           /\ ev.sigs[1].tag = ev.a /\ ev.sigs[1].val = ev.n

(* A throw passed a condition-case handler, a catch of another tag and  *)
(* an inner catch... and goes to a catch of its tag further out.        *)
C5_Witness ==
    /\ ev.op = "throw" /\ pc = "unwind"
    /\ \E i \in 1..Len(ev.hl) :
          /\ target = ev.hl[i].ptag
          /\ \E j \in 1..(i - 1) : ev.hl[j].type = "CONDITION_CASE"
          /\ \E j \in 1..(i - 1) :
                ev.hl[j].type = "CATCHER" /\ ev.hl[j].tag # ev.a

(* C6: within one condition-case the first-declared clause that names a *)
(* condition of the error runs: a signal raised while all the clauses   *)
(* of the form are installed goes to the first clause in declared order *)
(* that applies, and the handler entered runs that clause's body.       *)
C6_FirstDeclaredClauseRuns ==
    /\ (ev.op = "signal" /\ pc = "unwind") =>
          \A i \in 1..Len(ev.hl) :
            (/\ ev.hl[i].ptag = target
             /\ ev.hl[i].type = "CONDITION_CASE"
             /\ \E j \in 1..Len(ev.hl) :
                   ev.hl[j].cc = ev.hl[i].cc /\ ev.hl[j].ci = 1)
            => /\ ClauseApplies(ev.hl[i].form, ev.hl[i].ci, uval.car)
               /\ \A k \in 1..(ev.hl[i].ci - 1) :
                     ~ClauseApplies(ev.hl[i].form, k, uval.car)
    /\ (ev.op = "exit" /\ ev.a = "cc" /\ ev.b = "caught") =>
          /\ ev.hl[1].ptag = target
          /\ Top(dynstack).k = "frame" /\ Top(dynstack).hl = ev.hl
          /\ ev.hl[1].body =
               CcForms[ev.hl[1].form].handlers[ev.hl[1].ci].body

(* With (arith-error . H1) (error . H2), wrong-type-argument entered H2.*)
C6_Witness ==
    /\ ev.op = "exit" /\ ev.a = "cc" /\ ev.b = "caught"
    /\ ev.hl[1].form = 1 /\ ev.hl[1].body = "H2"
    /\ uval.car = "wrong-type-argument" /\ uval.org = "run"
    /\ pc = "run"

(* C7: Fsignal goes outward through handlerlist, passes over catches    *)
(* and over condition-case handlers that do not apply, and transfers    *)
(* to the first condition-case handler one of whose conditions is among *)
(* the error's conditions; handlers further out play no part.           *)
C7_SignalFindsFirstHandler ==
    (/\ ev.op = "signal"
     /\ \E i \in 1..Len(ev.hl) : Applies(ev.hl[i], ev.sigs[1].car))
    => /\ pc = "unwind"
       /\ uval = ev.sigs[1]
       /\ Len(ev.sigs) = 1
       /\ \E i \in 1..Len(ev.hl) :
             /\ Applies(ev.hl[i], ev.sigs[1].car)
             /\ target = ev.hl[i].ptag
             /\ \A j \in 1..(i - 1) : ~Applies(ev.hl[j], ev.sigs[1].car)

(* A signal passed a catch and a handler that does not apply, and a     *)
(* handler that applies lies beyond the one it goes to.                 *)
C7_Witness ==
    /\ ev.op = "signal" /\ pc = "unwind"
    /\ \E i \in 1..Len(ev.hl) :
          /\ target = ev.hl[i].ptag
          /\ \E j \in 1..(i - 1) : ev.hl[j].type = "CATCHER"
          /\ \E j \in 1..(i - 1) : ev.hl[j].type = "CONDITION_CASE"
          /\ \E j \in (i + 1)..Len(ev.hl) : Applies(ev.hl[j], uval.car)

(* C8: when specbind fails at the ceiling and a condition-case catches  *)
(* the error, SPECPDL_INDEX is what it was on entry to the              *)
(* condition-case and the variables are restored.                       *)
C8_CeilingErrorRecovered ==
    (/\ ev.op = "exit" /\ ev.a = "cc" /\ ev.b = "caught"
     /\ uval.car = "error" /\ uval.tag = "binding-depth")
    => Restored(ev.snap)

(* C9: binding records never outlive their extent: whenever a dynwind   *)
(* context, catch, condition-case or handler is left, normally or not,  *)
(* SPECPDL_INDEX is what it was on entry and the variables are          *)
(* restored.                                                            *)
C9_NoBindingOutlivesExtent ==
    ev.op = "exit" => Restored(ev.snap)

(* C11: between operations every Localized symbol's found flag is set   *)
(* exactly when valcell is a different cell than defcell, and every     *)
(* assertion made by set_blv_found while an operation ran has held.     *)
C11_FoundIffOwnCell ==
    /\ found_ok
    /\ \A s \in Syms :
          redirect[s] = "LOCALIZED"
          => (blv[s].found <=> blv[s].defcell # blv[s].valcell)

(* A forwarded variable was made local in the current buffer and the    *)
(* buffer's own cell is loaded.                                         *)
C11_Witness ==
    /\ ev.op = "make-local-variable" /\ ev.b = ""
    /\ redirect[ev.a] = "LOCALIZED"
    /\ blv[ev.a].fwd
    /\ blv[ev.a].found
    /\ blv[ev.a].where = current_buffer
    /\ blv[ev.a].valcell # blv[ev.a].defcell

(* The local_var_alist of every buffer is the same after the step.      *)
SameAlists ==
    \A b \in Buffers :
       buffers'[b].local_var_alist = buffers[b].local_var_alist

(* C12: reading a Localized symbol again from the same buffer, with     *)
(* nothing in between, returns the same value and changes no BLV field  *)
(* or cell; and no read at all adds a local association to a buffer.    *)
C12_SwapInIdempotent ==
    [][(ncalls' = ncalls + 1 /\ ev'.op = "symbol-value")
       => /\ SameAlists
          /\ (/\ redirect[ev'.a] = "LOCALIZED"
              /\ ev.op = "symbol-value" /\ ev.a = ev'.a /\ ev.b = "")
             => /\ ev'.b = ""
                /\ result' = result
                /\ blv' = blv
                /\ cells' = cells
                /\ symval' = symval
                /\ buffers' = buffers]_vars

(* A Localized symbol that has a local binding in the other buffer was  *)
(* read twice running from the current buffer.                          *)
C12_Witness ==
    /\ ev.op = "symbol-value" /\ ev.b = "" /\ ev.m >= 1
    /\ redirect[ev.a] = "LOCALIZED"
    /\ blv[ev.a].where = current_buffer
    /\ \E b \in Buffers \ {current_buffer} :
          Fassq(Store(symval, redirect), ev.a,
                buffers[b].local_var_alist) # 0

(* C13: set-default on a per-buffer forwarded variable stores the value *)
(* into buffer_defaults and into the slot of exactly the buffers whose  *)
(* local flag for the variable is clear; a buffer whose flag is set     *)
(* keeps its slot, and no flag changes.                                 *)
C13_SetDefaultPerBuffer ==
    [][(/\ ncalls' = ncalls + 1
        /\ ev'.op = "set-default" /\ ev'.b = ""
        /\ redirect[ev'.a] = "FORWARDED"
        /\ XFWDTYPE(ev'.a) = "Lisp_Fwd_Buffer_Obj")
       => /\ buffer_defaults' = ev'.n
          /\ \A b \in Buffers :
                buffers'[b] = IF buffers[b].local_flags
                              THEN buffers[b]
                              ELSE [buffers[b] EXCEPT !.slot = ev'.n]]_vars

(* The default was set while one buffer had its local flag set and the  *)
(* other had not: the first kept its slot, the second got the value.    *)
C13_Witness ==
    /\ ev.op = "set-default" /\ ev.b = ""
    /\ redirect[ev.a] = "FORWARDED"
    /\ XFWDTYPE(ev.a) = "Lisp_Fwd_Buffer_Obj"
    /\ buffer_defaults = ev.n
    /\ \E b1, b2 \in Buffers :
          /\ buffers[b1].local_flags /\ buffers[b1].slot # ev.n
          /\ ~buffers[b2].local_flags /\ buffers[b2].slot = ev.n

(* The step is specbind binding a variable, or failing to.              *)
BindStep ==
    /\ ncalls' = ncalls + 1
    /\ \/ ev'.op = "specbind"
       \/ ev'.op = "signal" /\ ev'.b = "specbind"

(* The step is unbind_once undoing the topmost record of specpdl.       *)
UndoStep ==
    /\ ev'.op = "undo"
    /\ specpdl # <<>>
    /\ specpdl' = SubSeq(specpdl, 1, Len(specpdl) - 1)
    /\ ev'.hl = <<Top(specpdl)>>

(* C14: let-binding a variable and undoing the binding add no local     *)
(* association to any buffer and set no per-buffer local flag: the      *)
(* buffers that have a binding of their own are the same before the     *)
(* let, inside it and after it.                                         *)
C14_LetMakesNothingLocal ==
    [][(BindStep \/ UndoStep)
       => /\ SameAlists
          /\ \A b \in Buffers :
                buffers'[b].local_flags = buffers[b].local_flags]_vars

(* An automatically buffer-local variable was let-bound and unbound in  *)
(* a buffer that has no binding of its own for it.                      *)
C14_Witness ==
    /\ ev.op = "undo"
    /\ redirect[ev.a] = "LOCALIZED"
    /\ blv[ev.a].local_if_set
    /\ ev.hl[1].kind = "SPECPDL_LET_DEFAULT"
    /\ ev.hl[1].where = current_buffer
    /\ buffers[current_buffer].local_var_alist = <<>>
    /\ ev.hl[1].old_value # 1

(* Symbol values, BLVs, cells and buffers are the same after the step.  *)
StoreUnchanged ==
    UNCHANGED <<symval, redirect, blv, cells, buffers, buffer_defaults>>

(* C15: set and set-default on a symbol flagged constant signal         *)
(* setting-constant and change nothing, except that setting a keyword   *)
(* to the value it has is accepted, and changes nothing either.         *)
C15_ConstantsAreNotSet ==
    [][(/\ ncalls' = ncalls + 1
        /\ ev'.op \in {"set", "set-default"}
        /\ constant[ev'.a])
       => /\ StoreUnchanged
          /\ ev'.b = IF ev'.a = SymKw /\ ev'.n = symval[ev'.a]
                     THEN "" ELSE "setting-constant"]_vars

(* A keyword was set to itself and set-default returned.                *)
C15_Witness ==
    /\ ev.op = "set-default" /\ ev.a = SymKw /\ ev.n = symval[SymKw]
    /\ constant[SymKw]
    /\ ev.b = "" /\ pc = "run"

(* The request the make-local operation op makes of the variable is one *)
(* the variable's kind excludes.                                        *)
MayNotBeLocal(op, variable) ==
    LET sym == indirect_variable(variable).hare
        buffer_local == op \in {"make-local-variable",
                                "make-variable-buffer-local"}
    IN \/ constant[sym] /\ redirect[sym] = "PLAINVAL"
       \/ redirect[sym] = "FORWARDED"
          /\ XFWDTYPE(sym) = "Lisp_Fwd_Kboard_Obj"
       \/ redirect[sym] = "FORWARDED"
          /\ XFWDTYPE(sym) = "Lisp_Fwd_Buffer_Obj" /\ ~buffer_local
       \/ redirect[sym] = "LOCALIZED"
          /\ blv[sym].frame_local = buffer_local

(* C16: make-local-variable, make-variable-buffer-local and             *)
(* make-variable-frame-local signal an error and leave the symbol, its  *)
(* BLV and every buffer as they were when the symbol is constant or     *)
(* forwards to a keyboard slot, when a per-buffer forwarded variable is *)
(* to become frame-local, when a frame-local variable is to become      *)
(* buffer-local, and when a buffer-local variable is to become          *)
(* frame-local.                                                         *)
C16_MakeLocalErrorsChangeNothing ==
    [][(/\ ncalls' = ncalls + 1
        /\ ev'.op \in {"make-local-variable", "make-variable-buffer-local",
                       "make-variable-frame-local"}
        /\ MayNotBeLocal(ev'.op, ev'.a))
       => /\ ev'.b = "error"
          /\ StoreUnchanged]_vars

(* A frame-local variable was asked to become automatically             *)
(* buffer-local.                                                        *)
C16_Witness ==
    /\ ev.op = "make-variable-buffer-local" /\ ev.b = "error"
    /\ redirect[ev.a] = "LOCALIZED"
    /\ blv[ev.a].frame_local
    /\ pc = "fatal"

(* What find_symbol_value returns for the symbol when the buffer is the *)
(* current one.                                                         *)
ValueIn(buffer, symbol) ==
    find_symbol_value([Store(symval, redirect) EXCEPT !.cur = buffer],
                      symbol).val

DefaultOf(symbol) == default_value(Store(symval, redirect), symbol).val

(* The number of local associations the buffer holds for the symbol; a  *)
(* per-buffer forwarded variable has one when its local flag is set.    *)
LocalAssociations(buffer, symbol) ==
    LET sym == indirect_variable(symbol).hare
        l == buffers[buffer].local_var_alist
    IN IF redirect[sym] = "FORWARDED"
       THEN IF BUFFER_OBJFWDP(sym) /\ buffers[buffer].local_flags
            THEN 1 ELSE 0
       ELSE Cardinality({i \in 1..Len(l) : cells[l[i]].car = sym})

(* C17: after make-local-variable succeeds in a buffer the variable's   *)
(* value read there is the value it had there before, the buffer holds  *)
(* exactly one local association for the variable, and the default      *)
(* value and the value read in every other buffer are what they were.   *)
C17_MakeLocalVariable ==
    [][\A v \in Syms :
         (/\ ncalls' = ncalls + 1
          /\ ev'.op = "make-local-variable" /\ ev'.a = v /\ ev'.b = "")
         => /\ LocalAssociations(current_buffer, v)' = 1
            /\ DefaultOf(v)' = DefaultOf(v)
            /\ \A b \in Buffers : ValueIn(b, v)' = ValueIn(b, v)]_vars

(* C18: a symbol whose redirection is Localized stays Localized and     *)
(* keeps the BLV it has, whose default cell make_blv made, whatever     *)
(* operation comes next.                                                *)
C18_LocalizedForGood ==
    [][\A s \in Syms :
         redirect[s] = "LOCALIZED"
         => /\ redirect'[s] = "LOCALIZED"
            /\ blv'[s].defcell = blv[s].defcell
            /\ blv'[s].fwd = blv[s].fwd
            /\ blv'[s].frame_local = blv[s].frame_local]_vars

(* The local binding of a buffer-local variable was killed, or the      *)
(* variable was named as a new alias, and the variable is Localized     *)
(* yet.                                                                 *)
C18_Witness ==
    /\ ev.a \in Syms
    /\ redirect[ev.a] = "LOCALIZED"
    /\ blv[ev.a].defcell # 0
    /\ \/ ev.op = "kill-local-variable" /\ ev.b = ""
          /\ buffers[current_buffer].local_var_alist = <<>>
          /\ \E b \in Buffers : buffers[b].local_var_alist # <<>>
       \/ ev.op = "defvaralias" /\ ev.b = "error"

(* C19: undoing a SPECPDL_LET record stores the saved value in the      *)
(* symbol's own slot, and does nothing else, when the symbol is Plain   *)
(* yet; when it is Plain no longer, the saved value becomes the default *)
(* value, and every buffer that has a local association for the symbol  *)
(* keeps the association and the value read through it.                 *)
C19_UndoLet ==
    [][\A v \in Syms :
         (/\ UndoStep
          /\ Top(specpdl).kind = "SPECPDL_LET"
          /\ Top(specpdl).symbol = v)
         => IF redirect[v] = "PLAINVAL"
            THEN /\ symval' = [symval EXCEPT ![v] = Top(specpdl).old_value]
                 /\ UNCHANGED <<redirect, blv, cells, buffers,
                                buffer_defaults>>
            ELSE /\ DefaultOf(v)' = Top(specpdl).old_value
                 /\ SameAlists
                 /\ \A b \in Buffers :
                       LocalAssociations(b, v) > 0
                       => ValueIn(b, v)' = ValueIn(b, v)]_vars

(* The variable was Plain when it was let-bound and was made local to a *)
(* buffer inside the let: the undo gave back the default value and the  *)
(* buffer reads the value bound in the let.                             *)
C19_Witness ==
    /\ ev.op = "undo"
    /\ ev.hl[1].kind = "SPECPDL_LET"
    /\ redirect[ev.a] = "LOCALIZED"
    /\ DefaultOf(ev.a) = ev.hl[1].old_value
    /\ \E b \in Buffers :
          /\ LocalAssociations(b, ev.a) = 1
          /\ ValueIn(b, ev.a) # ev.hl[1].old_value

(* C20: undoing a SPECPDL_LET_LOCAL record gives the recorded buffer    *)
(* the saved value when that buffer has a local binding of the symbol   *)
(* yet, whichever buffer is the current one, and changes nothing when   *)
(* the binding is gone; the default value and the value read in every   *)
(* other buffer are what they were, and no buffer gains or loses a      *)
(* binding.                                                             *)
C20_UndoLetLocal ==
    [][\A v \in Syms :
         (/\ UndoStep
          /\ Top(specpdl).kind = "SPECPDL_LET_LOCAL"
          /\ Top(specpdl).symbol = v)
         => /\ SameAlists
            /\ DefaultOf(v)' = DefaultOf(v)
            /\ \A b \in Buffers :
                  ValueIn(b, v)' =
                     IF /\ b = Top(specpdl).where
                        /\ LocalAssociations(b, v) > 0
                     THEN Top(specpdl).old_value
                     ELSE ValueIn(b, v)]_vars

(* The record was undone from another buffer than the recorded one,     *)
(* which has its binding yet and reads the saved value; or it was       *)
(* undone after the recorded buffer's binding was killed.               *)
C20_Witness ==
    /\ ev.op = "undo"
    /\ ev.hl[1].kind = "SPECPDL_LET_LOCAL"
    /\ \/ /\ ev.hl[1].where # current_buffer
          /\ LocalAssociations(ev.hl[1].where, ev.a) = 1
          /\ ValueIn(ev.hl[1].where, ev.a) = ev.hl[1].old_value
          /\ ev.hl[1].old_value # 1
       \/ /\ LocalAssociations(ev.hl[1].where, ev.a) = 0
          /\ ValueIn(ev.hl[1].where, ev.a) # ev.hl[1].old_value

(* ------------------------------------------------------------------ *)
(* Properties of signals nobody handles                                 *)
(* ------------------------------------------------------------------ *)
(* No condition-case handler of the list applies to the error.          *)
Unhandled(hl, error_symbol) ==
    \A i \in 1..Len(hl) : ~Applies(hl[i], error_symbol)

(* The list holds a catch of top-level.                                 *)
CatchesTopLevel(hl) ==
    \E i \in 1..Len(hl) : hl[i].type = "CATCHER" /\ hl[i].tag = "top-level"

(* C26: a signal that no condition-case handler applies to ends in a    *)
(* throw to a catch of top-level that is on handlerlist, or in fatal    *)
(* with the process terminated, whatever handlers are installed;        *)
(* Fsignal and Fthrow do not go on calling each other.                  *)
C26_UnhandledSignalEnds ==
    (/\ ev.sigs # <<>>
     /\ Unhandled(ev.hl, ev.sigs[1].car))
    => \/ pc = "fatal"
       \/ /\ pc = "unwind"
          /\ CatchesTopLevel(ev.hl)
          /\ \E i \in 1..Len(ev.hl) :
                /\ ev.hl[i].type = "CATCHER" /\ ev.hl[i].tag = "top-level"
                /\ target = ev.hl[i].ptag

(* The catch or condition-case clause that made handler h is on the     *)
(* dynamic stack with its body running: its prompt, the dynwind frame   *)
(* of icc_thunk and the set_handlerlist unwind handler.                 *)
ExtentLive(h) ==
    /\ h.ptag + 2 <= Len(dynstack)
    /\ dynstack[h.ptag].k = "prompt" /\ dynstack[h.ptag].hl = <<h>>
    /\ dynstack[h.ptag + 1].k = "frame" /\ dynstack[h.ptag + 1].fn = "icc"
    /\ dynstack[h.ptag + 2].fn = "set_handlerlist"

(* C28: when a catch or a condition-case clause returns, its body done  *)
(* or a throw or signal having come to it, handlerlist is what it was   *)
(* before the call; and in every state each handler on handlerlist but  *)
(* the sentinel belongs to a catch or condition-case that has not been  *)
(* left.                                                                *)
C28_HandlerlistRestored ==
    /\ (ev.op = "exit" /\ ev.a \in {"catch", "cc", "condition"}
        /\ ev.b \in {"normal", "caught"})
       => handlerlist = ev.snap.hl
    /\ handlerlist # <<>>
    /\ handlerlist[Len(handlerlist)] = handlerlist_sentinel
    /\ \A i \in 1..(Len(handlerlist) - 1) : ExtentLive(handlerlist[i])

(* A signal came to a condition-case clause inside a catch: the catch's *)
(* handler is on handlerlist yet, the clause's is not.                  *)
C28_Witness ==
    /\ ev.op = "exit" /\ ev.a = "cc" /\ ev.b = "caught"
    /\ handlerlist = ev.snap.hl
    /\ Len(handlerlist) >= 2
    /\ handlerlist[1].type = "CATCHER"
    /\ \A i \in 1..Len(handlerlist) : handlerlist[i] # ev.hl[1]

(* The handlers of the list, by position, that match the error symbol:  *)
(* a bare t or error marker always, a list of condition names when one  *)
(* of the names is among the symbol's error-conditions.                 *)
Matching(hl, error_symbol) ==
    {i \in 1..Len(hl) :
        /\ hl[i].type = "CONDITION_CASE"
        /\ IF hl[i].ch = <<>>
           THEN hl[i].tag \in {"t", "error"}
           ELSE \E n \in Range(hl[i].ch) :
                    n \in Range(ErrorConditions(error_symbol))}

(* C30: a handler installed by internal_condition_case with a bare t or *)
(* error marker matches every signal, whatever the error-conditions of  *)
(* the error symbol (quit and symbols without error-conditions          *)
(* included); a handler with a condition list matches exactly when one  *)
(* of its names is among the error-conditions.  A signal goes to the    *)
(* innermost matching handler, and to no condition-case handler when    *)
(* none matches.                                                        *)
C30_HandlerMatches ==
    ev.sigs # <<>>
    => LET m == Matching(ev.hl, ev.sigs[1].car)
       IN IF m # {}
          THEN /\ pc = "unwind"
               /\ uval = ev.sigs[1]
               /\ target = ev.hl[Min(m)].ptag
          ELSE ~(pc = "unwind" /\ uval = ev.sigs[1])

C30_Witness ==
    /\ ev.sigs # <<>>
    /\ ev.sigs[1].car \in {"quit", "my-signal"}
    /\ pc = "unwind"
    /\ uval = ev.sigs[1]
    /\ \E i \in 2..Len(ev.hl) :
          /\ ev.hl[i].type = "CONDITION_CASE"
          /\ ev.hl[i].ch = <<>>
          /\ ev.hl[i].tag = "error"
          /\ target = ev.hl[i].ptag
          /\ \E j \in 1..(i - 1) : /\ ev.hl[j].type = "CONDITION_CASE"
                                   /\ ev.hl[j].ch # <<>>

(* C29: a condition-case handler with a variable runs its body with the *)
(* variable bound to (error_symbol . data), or to the data itself when  *)
(* the error symbol is nil as for memory-full; the form returns the     *)
(* value of the last form of the handler body, and the variable has its *)
(* previous binding again when the body has finished.                   *)
C29_HandlerVariable ==
    /\ (ev.op = "specbind" /\ ev.b = "handler" /\ ev.a \in Syms)
       => IF uval.car = "nil"
          THEN symval[ev.a] = DataValue(uval)
          ELSE /\ ErrorConsP(symval[ev.a])
               /\ ErrorCar(symval[ev.a]) = uval.car
               /\ ErrorCdr(symval[ev.a]) = DataValue(uval)
    /\ (ev.op = "exit" /\ ev.a = "handler" /\ ev.b = "normal"
        /\ ev.hl[1].var \in Syms)
       => /\ result = Fprogn(ev.hl[1].body)
          /\ symval[ev.hl[1].var] = ev.snap.vals[ev.hl[1].var]
          /\ SPECPDL_INDEX = ev.snap.idx

(* The same while every binding record has its unbind_once.             *)
C29_UnlessLeaked == Leaked \/ C29_HandlerVariable

(* The parameters of a lambda list, its markers left out.               *)
IsParam(x) == x \notin {"&optional", "&rest"}

ParamsOf(ll) == SelectSeq(ll, IsParam)

(* How many elements before the first marker, or all.                   *)
RequiredOf(ll) ==
    Cardinality({j \in 1..Len(ll) :
                    \A k \in 1..j : ll[k] \notin {"&optional", "&rest"}})

HasRest(ll) == \E j \in 1..Len(ll) : ll[j] = "&rest"

(* The parameters between &optional and &rest.                          *)
OptionalOf(ll) ==
    Cardinality({j \in 1..Len(ll) :
                    /\ ll[j] \notin {"&optional", "&rest"}
                    /\ \E k \in 1..j : ll[k] = "&optional"
                    /\ \A k \in 1..j : ll[k] # "&rest"})

ArityOk(ll, nargs) ==
    IF HasRest(ll)
    THEN nargs >= RequiredOf(ll)
    ELSE RequiredOf(ll) <= nargs /\ nargs <= RequiredOf(ll) + OptionalOf(ll)

(* The elements of a list value, in order.                              *)
RECURSIVE ElementsOf(_)
ElementsOf(v) ==
    IF ~ListConsP(v) THEN <<>> ELSE <<ListCar(v)>> \o ElementsOf(ListCdr(v))

(* The body of the call runs with every parameter bound as claimed.     *)
BoundAsClaimed(ll, nargs) ==
    \A j \in 1..Len(ParamsOf(ll)) :
        IF HasRest(ll) /\ j = Len(ParamsOf(ll))
        THEN ElementsOf(symval[ParamsOf(ll)[j]]) = SubSeq(arg_vector, j, nargs)
        ELSE symval[ParamsOf(ll)[j]] =
                 IF j <= nargs THEN arg_vector[j] ELSE Qnil

(* C21: funcall_lambda reaches the body exactly when the number of      *)
(* actuals fits the lambda list (r <= nargs <= r + o without &rest,     *)
(* nargs >= r with it) and signals wrong-number-of-arguments only when  *)
(* it does not; in the body the i-th parameter holds the i-th actual,   *)
(* an optional parameter without actual nil, and the &rest parameter    *)
(* the list of the remaining actuals in order; when the call fails      *)
(* while binding, the bindings it had made are undone.                  *)
C21_FuncallLambda ==
    /\ (ev.op = "body" /\ ev.a = "funcall")
       => /\ ArityOk(LambdaLists[ev.n], ev.m)
          /\ BoundAsClaimed(LambdaLists[ev.n], ev.m)
    /\ (ev.op = "signal" /\ ev.b = "funcall")
       => ~ArityOk(LambdaLists[ev.n], ev.m)
    /\ (ev.op = "exit" /\ ev.a = "condition" /\ ev.b = "caught"
        /\ uval.org = "funcall")
       => Restored(ev.snap)

(* The same while every binding record has its unbind_once.             *)
C21_UnlessLeaked == Leaked \/ C21_FuncallLambda

IsFunction(x) == x \in HookFunctions

(* The functions a hook has to run, in order: those of the value, with  *)
(* those of the default value in the place of each t; a t of the        *)
(* default value stands for nothing.                                    *)
DefaultFunctions(dv) ==
    IF dv = Qnil
    THEN <<>>
    ELSE IF ~ListConsP(dv)
    THEN <<dv>>
    ELSE SelectSeq(ElementsOf(dv), IsFunction)

RECURSIVE Spliced(_, _)
Spliced(elements, dv) ==
    IF elements = <<>>
    THEN <<>>
    ELSE (IF Head(elements) = Qt
          THEN DefaultFunctions(dv)
          ELSE <<Head(elements)>>) \o Spliced(Tail(elements), dv)

HookFunctionsOf(hook) ==
    LET val == find_symbol_value(Store(symval, redirect), hook).val
        dv == Fdefault_value(Store(symval, redirect), hook).val
    IN IF val = Qnil
       THEN <<>>
       ELSE IF ~ListConsP(val) THEN <<val>> ELSE Spliced(ElementsOf(val), dv)

(* The functions called are the first of fs up to and with the first    *)
(* whose place is in stops, or all of fs when stops is empty.           *)
CalledUpTo(calls, fs, stops) ==
    calls = IF stops = {} THEN fs ELSE SubSeq(fs, 1, Min(stops))

(* C22: a hook runner calls the functions of the hook's value in list   *)
(* order, with the functions of the default value in the place of an    *)
(* element t (a t of the default value is passed over).  run-hooks and  *)
(* run-hook-with-args call every one; run-hook-with-args-until-success  *)
(* stops after the first that returns non-nil and returns its value;    *)
(* run-hook-with-args-until-failure stops after the first that returns  *)
(* nil and returns nil, and returns non-nil when none did.              *)
C22_RunHook ==
    (ev.op \in HookRunners /\ ev.b = "")
    => LET fs == HookFunctionsOf(ev.a)
           calls == ElementsOf(ev.m)
           yes == {k \in 1..Len(fs) : Ffuncall(fs[k]) # Qnil}
           no == {k \in 1..Len(fs) : Ffuncall(fs[k]) = Qnil}
       IN CASE ev.op = "run-hook-with-args-until-success" ->
                 /\ CalledUpTo(calls, fs, yes)
                 /\ ev.n = IF yes = {} THEN Qnil ELSE Ffuncall(fs[Min(yes)])
            [] ev.op = "run-hook-with-args-until-failure" ->
                 /\ CalledUpTo(calls, fs, no)
                 /\ (ev.n = Qnil) = (no # {})
            [] OTHER -> calls = fs

C22_Witness ==
    /\ ev.op = "run-hook-with-args-until-failure" /\ ev.b = ""
    /\ find_symbol_value(Store(symval, redirect), ev.a).val
         = Flist(2, <<Qt, 2>>)
    /\ Fdefault_value(Store(symval, redirect), ev.a).val
         = Flist(3, <<4, Qt, 1>>)
    /\ ElementsOf(ev.m) = <<4, 1>>
    /\ ev.n = Qnil

(* un_autoload has just run, with the frame of its Fautoload_do_load    *)
(* now on top of the dynamic stack: Vautoload_queue is what it was      *)
(* before the call, and after a non-local exit so are the function      *)
(* cells and Vfeatures.                                                 *)
C23_RolledBack ==
    ev.op = "un_autoload"
    => /\ Vautoload_queue = Top(dynstack).snap.queue
       /\ ev.b = "unwind"
          => /\ symbol_function = Top(dynstack).snap.fns
             /\ Vfeatures = Top(dynstack).snap.features

(* No step of a normal completion changes a function cell or Vfeatures. *)
C23_NormalKeeps ==
    pc = "end" => /\ symbol_function' = symbol_function
                  /\ Vfeatures' = Vfeatures

RecordsOf(recs, fun) == {j \in 1..Len(recs) : recs[j].fun = fun}

OldestOld(recs, fun) ==
    recs[CHOOSE j \in RecordsOf(recs, fun) :
            \A k \in RecordsOf(recs, fun) : k <= j].old

(* Every record that was on the queue when un_autoload ran is undone,   *)
(* the newest first: what has records holds what it held when its       *)
(* oldest record was made, and nothing else is changed.                 *)
C23_QueueUndone ==
    (ev.op = "un_autoload" /\ ev.b = "unwind")
    => LET recs == ev.snap.queue.recs
       IN /\ \A f \in FnSyms :
                symbol_function[f] = IF RecordsOf(recs, f) # {}
                                     THEN OldestOld(recs, f)
                                     ELSE ev.snap.fns[f]
          /\ Vfeatures = IF RecordsOf(recs, "0") # {}
                         THEN OldestOld(recs, "0")
                         ELSE ev.snap.features

DebuggerLeft ==
    \/ ev.op \in {"return", "transfer"}
    \/ ev.op = "exit" /\ ev.a = "debugger"

C24_EvalCeilingRaised ==
    ev.op = "call_debugger" =>
        max_lisp_eval_depth >= lisp_eval_depth + DebuggerEvalMargin

C24_BindingCeilingRaised ==
    ev.op = "call_debugger" => max_specpdl_size > ev.n

C24_CeilingsRestored ==
    DebuggerLeft => /\ max_specpdl_size = ev.snap.vals[SymF]
                    /\ max_lisp_eval_depth = ev.n

C24_DebuggerCeilings ==
    /\ C24_EvalCeilingRaised
    /\ C24_BindingCeilingRaised
    /\ C24_CeilingsRestored

(* ------------------------------------------------------------------ *)
(* C25: the debugger is not entered twice in one input round, and      *)
(* while the debugger function runs inhibit-debugger is t and is put   *)
(* back when the debugger is left.  call_debugger notes the round it   *)
(* is entered in and nothing else changes that note; Fsignal decides   *)
(* to call the debugger only in a later round than the noted one and   *)
(* only while inhibit-debugger is nil; inhibit-debugger is t while the *)
(* debugger function runs and has its value of before the call once    *)
(* call_debugger is left.                                              *)
(* ------------------------------------------------------------------ *)
(* The debugger function is running: call_debugger is past its         *)
(* specbinds and not yet at its dynwind_end.                           *)
DebuggerRunning == signaling # <<>> /\ pc = "run"

C25_RoundNoted ==
    ev.op = "call_debugger" =>
        when_entered_debugger = num_nonmacro_input_events

C25_NotedByCallDebugger ==
    when_entered_debugger' # when_entered_debugger =>
        ev'.op = "call_debugger"

C25_LaterRoundOnly ==
    pc = "debugger" => /\ when_entered_debugger < num_nonmacro_input_events
                       /\ Vinhibit_debugger = Qnil

C25_InhibitedWhileRunning == DebuggerRunning => Vinhibit_debugger = Qt

C25_InhibitRestored ==
    DebuggerLeft => Vinhibit_debugger = ev.snap.vals[SymID]

C25_NoDebuggerRecursion ==
    /\ [](C25_RoundNoted)
    /\ [](C25_LaterRoundOnly)
    /\ [](C25_InhibitedWhileRunning)
    /\ [](C25_InhibitRestored)
    /\ [][C25_NotedByCallDebugger]_vars

(* The same while every binding record has its unbind_once.            *)
C25_RestoredUnlessLeaked == Leaked \/ C25_InhibitRestored

C25_UnlessLeaked ==
    /\ [](C25_RoundNoted)
    /\ [](C25_LaterRoundOnly)
    /\ [](C25_InhibitedWhileRunning)
    /\ [](C25_RestoredUnlessLeaked)
    /\ [][C25_NotedByCallDebugger]_vars

(* ------------------------------------------------------------------ *)
(* C27: Fsignal does not return to its caller.  Where Fsignal has      *)
(* acted, control is in the debugger it called, on its way to a        *)
(* condition-case handler that matches one of the errors signaled or   *)
(* to a catch of top-level, in Fthrow (Qtop_level, Qt), or the process *)
(* has ended.                                                          *)
(* ------------------------------------------------------------------ *)
(* Where Fsignal leaves control: ev.sigs are the errors signaled, the  *)
(* no-catch errors of Fthrow included, and ev.hl the handlers.         *)
FsignalTransfers ==
    (ev.op \in {"signal", "transfer"} /\ ev.sigs # <<>>)
    => \/ pc = "debugger"
       \/ pc \in {"fatal", "diverge"}
       \/ /\ pc = "unwind"
          /\ \E i \in 1..Len(ev.hl) :
                /\ ev.hl[i].ptag = target
                /\ \/ \E k \in 1..Len(ev.sigs) :
                         Applies(ev.hl[i], real_error_symbol(ev.sigs[k]))
                   \/ /\ ev.hl[i].type = "CATCHER"
                      /\ ev.hl[i].tag = "top-level"

DebuggerEntered == ev.op = "call_debugger"

EnteredError == signaling[Len(signaling)].e

EnteredMatches ==
    LET hl == signaling[Len(signaling)].hl
    IN {i \in 1..Len(hl) :
          /\ hl[i].type = "CONDITION_CASE"
          /\ \/ hl[i].ch = <<>> /\ hl[i].tag \in {"t", "error"}
             \/ \E j \in 1..Len(hl[i].ch) :
                   hl[i].ch[j] \in Range(ErrorConditions(
                                            real_error_symbol(EnteredError)))}

(* C31, with a handler.  When a condition-case handler matches the      *)
(* signal, the debugger is entered only if debug-on-signal is non-nil,  *)
(* the matching clause's condition list contains debug, or the          *)
(* handler's condition is the bare symbol error.                        *)
C31_HandledErrorsAreNotDebugged ==
    DebuggerEntered /\ EnteredMatches # {}
    => LET hl == signaling[Len(signaling)].hl
           h == hl[CHOOSE i \in EnteredMatches :
                      \A j \in EnteredMatches : i <= j]
       IN \/ Vdebug_on_signal # Qnil
          \/ "debug" \in Range(h.ch)
          \/ h.ch = <<>> /\ h.tag = "error"

(* C31, memory-full.  The debugger is never entered for a signal whose  *)
(* error symbol is nil.                                                 *)
C31_MemoryFullIsNotDebugged ==
    DebuggerEntered => EnteredError.car # "nil"

(* C31, inhibit-debugger.  The debugger is never entered while          *)
(* inhibit-debugger is non-nil.                                         *)
C31_InhibitedIsNotDebugged ==
    DebuggerEntered => ev.snap.vals[SymID] = Qnil

(* C31, debug-ignored-errors.  The debugger is never entered for an     *)
(* error one of whose conditions is in debug-ignored-errors or whose    *)
(* message one of its regexps matches.                                  *)
C31_IgnoredIsNotDebugged ==
    DebuggerEntered
    => \A i \in 1..Len(Vdebug_ignored_errors) :
          LET x == Vdebug_ignored_errors[i]
              sym == real_error_symbol(EnteredError)
          IN IF x.stringp
             THEN x.x # ErrorMessage(sym)
             ELSE x.x \notin Range(ErrorConditions(sym))

(* C31.  When a condition-case handler matches a signal the debugger is *)
(* not invoked unless debug-on-signal is non-nil, the matching clause   *)
(* lists debug or the handler's condition is the bare symbol error; and *)
(* the debugger is never invoked for a signal whose error symbol is     *)
(* nil, while inhibit-debugger is non-nil, or for an error whose        *)
(* conditions or message match debug-ignored-errors.                    *)
C31_DebuggerPolicy ==
    /\ C31_HandledErrorsAreNotDebugged
    /\ C31_MemoryFullIsNotDebugged
    /\ C31_InhibitedIsNotDebugged
    /\ C31_IgnoredIsNotDebugged

(* The debugger is entered for an error that a handler listing debug    *)
(* matches, with debug-ignored-errors set to a regexp that does not     *)
(* match its message.                                                   *)
C31_Witness ==
    /\ DebuggerEntered
    /\ EnteredMatches # {}
    /\ Vdebug_on_signal = Qnil
    /\ Vdebug_ignored_errors # <<>>
    /\ EnteredError.car = "arith-error"

(* ------------------------------------------------------------------ *)
(* C32                                                                  *)
(* ------------------------------------------------------------------ *)
(* C32.  Between operations the binding stack index stays inside the    *)
(* allocated array: 0 <= SPECPDL_INDEX () < specpdl_size, so that there *)
(* is always one unused entry past the top of the stack and specbind    *)
(* never writes at or beyond specpdl + specpdl_size.                    *)
C32_IndexInsideArray ==
    pc = "run" => 0 <= SPECPDL_INDEX /\ SPECPDL_INDEX < specpdl_size

(* C32 while no specbind has signaled: the index stays inside the       *)
(* array as long as the records on specpdl are those of bindings that   *)
(* are in effect, one unbind_once each.                                 *)
C32_IndexInsideArrayUnlessLeaked ==
    /\ pc = "run"
    /\ Len(specpdl) =
           Cardinality({i \in 1..Len(dynstack) :
                           /\ dynstack[i].k = "winder"
                           /\ dynstack[i].fn = "unbind_once"})
    => 0 <= SPECPDL_INDEX /\ SPECPDL_INDEX < specpdl_size

(* ------------------------------------------------------------------ *)
(* C33                                                                  *)
(* ------------------------------------------------------------------ *)
(* The variable can have buffer-local values: it is Localized to        *)
(* buffers or forwards to a per-buffer slot.                            *)
BufferLocalCapable(v) ==
    LET sym == indirect_variable(v).hare
    IN \/ redirect[sym] = "LOCALIZED" /\ ~blv[sym].frame_local
       \/ redirect[sym] = "FORWARDED" /\ BUFFER_OBJFWDP(sym)

(* The value the Lisp program let-binds the variable to.                *)
BoundValue(v) == (CHOOSE b \in LetInputs : b[1] = v)[2]

(* The step is a specbind of v that returned.                           *)
BoundStep(v) ==
    /\ ncalls' = ncalls + 1
    /\ ev'.op = "specbind"
    /\ ev'.a = v

(* C33, binding without a local value.  specbind of a variable that can *)
(* be buffer-local, in a buffer that has no local value for it, changes *)
(* the default value: the new value is read in every buffer without a   *)
(* value of its own, and the buffers with their own value read what     *)
(* they read before.                                                    *)
C33_LetChangesDefault ==
    \A v \in {b[1] : b \in LetInputs} :
       (/\ BoundStep(v)
        /\ BufferLocalCapable(v)
        /\ LocalAssociations(current_buffer, v) = 0)
       => /\ Top(specpdl').old_value = DefaultOf(v)
          /\ DefaultOf(v)' = BoundValue(v)
          /\ \A b \in Buffers :
                ValueIn(b, v)' = IF LocalAssociations(b, v) = 0
                                 THEN BoundValue(v)
                                 ELSE ValueIn(b, v)

(* C33, binding with a local value.  When the buffer has a local value  *)
(* only that buffer's value changes.                                    *)
C33_LetChangesLocal ==
    \A v \in {b[1] : b \in LetInputs} :
       (/\ BoundStep(v)
        /\ BufferLocalCapable(v)
        /\ LocalAssociations(current_buffer, v) > 0)
       => /\ Top(specpdl').old_value = ValueIn(current_buffer, v)
          /\ DefaultOf(v)' = DefaultOf(v)
          /\ \A b \in Buffers :
                ValueIn(b, v)' = IF b = current_buffer
                                 THEN BoundValue(v)
                                 ELSE ValueIn(b, v)

(* C33, undoing.  Undoing the binding of the default restores the old   *)
(* default in every buffer without a value of its own; undoing the      *)
(* binding of a local value restores it in its buffer alone.            *)
C33_UndoRestores ==
    \A v \in Syms :
       (/\ UndoStep
        /\ Top(specpdl).symbol = v
        /\ BufferLocalCapable(v))
       => CASE Top(specpdl).kind = "SPECPDL_LET_DEFAULT" ->
                 /\ DefaultOf(v)' = Top(specpdl).old_value
                 /\ \A b \in Buffers :
                       ValueIn(b, v)' = IF LocalAssociations(b, v) = 0
                                        THEN Top(specpdl).old_value
                                        ELSE ValueIn(b, v)
            [] Top(specpdl).kind = "SPECPDL_LET_LOCAL"
               /\ LocalAssociations(Top(specpdl).where, v) > 0 ->
                 /\ DefaultOf(v)' = DefaultOf(v)
                 /\ \A b \in Buffers :
                       ValueIn(b, v)' = IF b = Top(specpdl).where
                                        THEN Top(specpdl).old_value
                                        ELSE ValueIn(b, v)
            [] OTHER -> TRUE

(* C33, undoing at once.  When the binding is undone before anything   *)
(* else is done, the saved value is the default again, read in every    *)
(* buffer without a value of its own, if the buffer had no local value; *)
(* if it had one the saved value is that buffer's value again, and the  *)
(* default and the other buffers' values are untouched.                 *)
C33_UndoAtOnce ==
    \A v \in Syms :
       (/\ UndoStep
        /\ ev.op = "specbind"
        /\ Top(specpdl).symbol = v
        /\ BufferLocalCapable(v))
       => IF LocalAssociations(current_buffer, v) = 0
          THEN /\ DefaultOf(v)' = Top(specpdl).old_value
               /\ \A b \in Buffers :
                     ValueIn(b, v)' = IF LocalAssociations(b, v) = 0
                                      THEN Top(specpdl).old_value
                                      ELSE ValueIn(b, v)
          ELSE /\ DefaultOf(v)' = DefaultOf(v)
               /\ \A b \in Buffers :
                     ValueIn(b, v)' = IF b = current_buffer
                                      THEN Top(specpdl).old_value
                                      ELSE ValueIn(b, v)

(* C33.  Let-binding a buffer-local-capable variable in a buffer that   *)
(* has no local value for it changes the default value, so that the new *)
(* value is read in every buffer without its own value while buffers    *)
(* with their own value are unaffected, and undoing the binding         *)
(* restores the old default in all those buffers; if the buffer does    *)
(* have a local value, only that buffer's value changes and is          *)
(* restored.                                                            *)
C33_LetOfBufferLocal ==
    [][/\ C33_LetChangesDefault
       /\ C33_LetChangesLocal
       /\ C33_UndoRestores
       /\ C33_UndoAtOnce]_vars

(* C33 for the variables that reach specbind with no binding of theirs  *)
(* on specpdl: the value saved is the default.                          *)
C33_SavesDefaultOutsideLets ==
    [][\A v \in {b[1] : b \in LetInputs} :
         (/\ BoundStep(v)
          /\ BufferLocalCapable(v)
          /\ LocalAssociations(current_buffer, v) = 0
          /\ \A i \in 1..Len(specpdl) :
                specpdl[i].symbol # indirect_variable(v).hare)
         => Top(specpdl').old_value = DefaultOf(v)]_vars

(* ------------------------------------------------------------------ *)
(* C34                                                                  *)
(* ------------------------------------------------------------------ *)
(* The variable is automatically buffer-local.                          *)
LocalIfSet(v) ==
    LET sym == indirect_variable(v).hare
    IN redirect[sym] = "LOCALIZED" /\ blv[sym].local_if_set

(* A let-binding of the variable made in the buffer is in effect.       *)
LetBoundIn(buffer, v) ==
    \E i \in 1..Len(specpdl) :
       /\ specpdl[i].kind \in {"SPECPDL_LET_LOCAL", "SPECPDL_LET_DEFAULT"}
       /\ specpdl[i].symbol = indirect_variable(v).hare
       /\ specpdl[i].where = buffer

(* The step is a call of Fset on v that returned.                       *)
SetStep(v) ==
    /\ ncalls' = ncalls + 1
    /\ ev'.op = "set"
    /\ ev'.a = v
    /\ ev'.b = ""

(* C34, set.  Fset of an automatically buffer-local variable in a       *)
(* buffer that has no local value for it, outside any let-binding of it *)
(* made in that buffer, creates exactly one local association there,    *)
(* holding the new value, and leaves the default value and every other  *)
(* buffer's value unchanged.                                            *)
C34_SetMakesLocal ==
    \A v \in Syms :
       (/\ SetStep(v)
        /\ LocalIfSet(v)
        /\ LocalAssociations(current_buffer, v) = 0
        /\ ~LetBoundIn(current_buffer, v))
       => /\ LocalAssociations(current_buffer, v)' = 1
          /\ ValueIn(current_buffer, v)' = ev'.n
          /\ DefaultOf(v)' = DefaultOf(v)
          /\ \A b \in Buffers \ {current_buffer} :
                /\ ValueIn(b, v)' = ValueIn(b, v)
                /\ LocalAssociations(b, v)' = LocalAssociations(b, v)

(* C34, set inside a let.  Setting the variable while a let-binding of  *)
(* it made in the buffer is in effect creates no local association.     *)
C34_SetInsideLetMakesNothingLocal ==
    \A v \in Syms :
       (/\ SetStep(v)
        /\ LocalIfSet(v)
        /\ LocalAssociations(current_buffer, v) = 0
        /\ LetBoundIn(current_buffer, v))
       => /\ SameAlists
          /\ ValueIn(current_buffer, v)' = ev'.n
          /\ DefaultOf(v)' = ev'.n

(* C34, let.  Binding the variable with let creates no local            *)
(* association.                                                         *)
C34_LetMakesNothingLocal ==
    \A v \in Syms :
       (/\ ncalls' = ncalls + 1
        /\ ev'.op = "specbind"
        /\ ev'.a = v
        /\ LocalIfSet(v))
       => SameAlists

Aliases == {s \in Syms : redirect[s] = "VARALIAS"}

(* The two names stand for the same variable.                           *)
SameVariable(s, v) == indirect_variable(s).hare = indirect_variable(v).hare

(* What reading the symbol in the buffer gives: the value, or the error *)
(* signaled.                                                            *)
ReadIn(buffer, symbol) ==
    LET r == Fsymbol_value([Store(symval, redirect) EXCEPT !.cur = buffer],
                           symbol)
    IN <<r.err, r.val>>

(* C35, at rest.  An alias and its base variable read the same in every *)
(* buffer, and have the same default value.                             *)
C35_SameValue ==
    \A s \in Aliases :
       /\ alias[s] \in Syms
       /\ DefaultOf(s) = DefaultOf(alias[s])
       /\ \A b \in Buffers : ReadIn(b, s) = ReadIn(b, alias[s])

(* C35, set and set-default.  What is set through one name is read      *)
(* through every name of the same variable.                             *)
C35_SetThroughEitherName ==
    \A v \in Syms, s \in Syms :
       (/\ ncalls' = ncalls + 1
        /\ ev'.a = v
        /\ ev'.b = ""
        /\ SameVariable(s, v))
       => /\ ev'.op = "set" => ValueIn(current_buffer, s)' = ev'.n
          /\ ev'.op = "set-default" => DefaultOf(s)' = ev'.n

(* C35, let.  What is let-bound through one name is read through every  *)
(* name of the same variable, and so is the value the undo puts back.   *)
C35_LetThroughEitherName ==
    \A v \in {b[1] : b \in LetInputs}, s \in Syms :
       (/\ ncalls' = ncalls + 1
        /\ ev'.op = "specbind"
        /\ ev'.a = v
        /\ SameVariable(s, v))
       => ValueIn(current_buffer, s)' = BoundValue(v)

(* C35, the call.  When defvaralias succeeds the new alias reads what   *)
(* the base variable reads; the base variable keeps its value when it   *)
(* had one, and takes the value of the new alias when it was unbound.   *)
C35_AliasTakesOver ==
    \A new \in Syms :
       (/\ ncalls' = ncalls + 1
        /\ ev'.op = "defvaralias"
        /\ ev'.a = new
        /\ ev'.b = "")
       => /\ redirect'[new] = "VARALIAS"
          /\ \A base \in Syms :
                base = alias'[new]
                => /\ ValueIn(current_buffer, new)' =
                         ValueIn(current_buffer, base)'
                   /\ ValueIn(current_buffer, base)' =
                         IF ValueIn(current_buffer, base) # Qunbound
                         THEN ValueIn(current_buffer, base)
                         ELSE ValueIn(current_buffer, new)

(* C35.  After defvaralias (NEW, BASE) succeeds NEW and BASE always     *)
(* have the same value: any set, set-default or let-binding made        *)
(* through either name is observed through the other, and if BASE was   *)
(* unbound and NEW was bound to v before the call, BASE's value is v    *)
(* afterwards.                                                          *)
C35_AliasesShareValue ==
    /\ [](C35_SameValue)
    /\ [][/\ C35_SetThroughEitherName
          /\ C35_LetThroughEitherName
          /\ C35_AliasTakesOver]_vars

(* The base variable was unbound and took the value of its new alias,   *)
(* which was not nil.                                                   *)
C35_Witness ==
    /\ ev.op = "defvaralias"
    /\ ev.b = ""
    /\ redirect[ev.a] = "VARALIAS"
    /\ symval[ev.a] \notin {Qunbound, Qnil}
    /\ ValueIn(current_buffer, alias[ev.a]) = symval[ev.a]
    /\ pc = "run"

(* ------------------------------------------------------------------ *)
(* C36                                                                  *)
(* ------------------------------------------------------------------ *)
(* The places on specpdl of the live let-bindings of the default value  *)
(* of S: the Let and LetDefault records of the variable S names whose   *)
(* unbind_once is registered.                                           *)
LiveLets(S) ==
    {i \in 1..Len(specpdl) :
        /\ specpdl[i].kind \in {"SPECPDL_LET", "SPECPDL_LET_DEFAULT"}
        /\ specpdl[i].symbol = indirect_variable(S).hare
        /\ \E j \in 1..Len(dynstack) : /\ dynstack[j].k = "winder"
                                       /\ dynstack[j].fn = "unbind_once"
                                       /\ dynstack[j].gi = i}

(* The default value S had outside all its live let-bindings.           *)
ToplevelDefault(S) ==
    IF LiveLets(S) = {}
    THEN DefaultOf(S)
    ELSE specpdl[Min(LiveLets(S))].old_value

(* C36, reading.  default-toplevel-value (S) returns the default value  *)
(* S had outside all its live let-bindings.                             *)
C36_ReadsToplevel(S) ==
    (/\ ncalls' = ncalls + 1
     /\ ev'.op = "default-toplevel-value"
     /\ ev'.a = S
     /\ ToplevelDefault(S) # Qunbound)
    => /\ ev'.b = ""
       /\ ev'.n = ToplevelDefault(S)

(* C36, setting.  set-default-toplevel-value (S, v) makes v the default *)
(* value outside the live let-bindings and leaves what is seen inside   *)
(* them unchanged.                                                      *)
C36_SetsToplevel(S) ==
    (/\ ncalls' = ncalls + 1
     /\ ev'.op = "set-default-toplevel-value"
     /\ ev'.a = S
     /\ ev'.b = "")
    => /\ ToplevelDefault(S)' = ev'.n
       /\ LiveLets(S) # {}
          => /\ DefaultOf(S)' = DefaultOf(S)
             /\ \A b \in Buffers : ValueIn(b, S)' = ValueIn(b, S)

(* C36, undoing.  When the outermost live let-binding of S is undone    *)
(* the value it saved is the default value of S.                        *)
C36_UndoGivesToplevel(S) ==
    (/\ UndoStep
     /\ LiveLets(S) # {}
     /\ Len(specpdl) = Min(LiveLets(S)))
    => DefaultOf(S)' = Top(specpdl).old_value

(* C36.  default-toplevel-value (S) returns the default value S had     *)
(* outside all currently live let-bindings of S: the old value saved by *)
(* the outermost Let or LetDefault entry for S, or the current default  *)
(* if S is not let-bound.  set-default-toplevel-value (S, v) leaves the *)
(* value currently seen inside the lets unchanged, and once all live    *)
(* let-bindings of S have been undone the default value of S is v.      *)
C36_ToplevelValue ==
    [][\A S \in ToplevelSyms :
          /\ C36_ReadsToplevel(S)
          /\ C36_SetsToplevel(S)
          /\ C36_UndoGivesToplevel(S)]_vars

(* Every record on specpdl has its unbind_once registered.              *)
NothingLeaked ==
    Len(specpdl) =
       Cardinality({j \in 1..Len(dynstack) :
                       /\ dynstack[j].k = "winder"
                       /\ dynstack[j].fn = "unbind_once"})

(* C36 for a symbol that is no alias, while no specbind has signaled    *)
(* and left its record on specpdl.                                      *)
C36_ToplevelValueOfBaseUnlessLeaked ==
    [][\A S \in ToplevelSyms :
          NothingLeaked /\ redirect[S] # "VARALIAS"
          => /\ C36_ReadsToplevel(S)
             /\ C36_SetsToplevel(S)
             /\ C36_UndoGivesToplevel(S)]_vars

(* ------------------------------------------------------------------ *)
(* C37                                                                  *)
(* ------------------------------------------------------------------ *)
(* e is an unwind-protect cleanup on the dynamic stack.                 *)
IsCleanup(e) == e.k = "winder" /\ e.fn \in Cleanups

(* s is the end of the sequence t.                                      *)
IsSuffix(s, t) ==
    /\ Len(s) <= Len(t)
    /\ \A i \in 1..Len(s) : s[i] = t[Len(t) - Len(s) + i]

(* A throw or signal runs the cleanup on top of the dynamic stack.      *)
CleanupRunsInUnwind ==
    /\ pc = "unwind"
    /\ dynstack # <<>>
    /\ IsCleanup(Top(dynstack))
    /\ dynstack' = Pop(dynstack)
    /\ ran' # ran

(* C37, at the cleanup.  A cleanup a throw or signal runs finds the     *)
(* handler stack that was in effect when it was registered.             *)
C37_CleanupSeesItsHandlers ==
    [][CleanupRunsInUnwind => handlerlist = Top(dynstack).hl]_vars

(* C37, before the cleanup.  While an unwind is under way handlerlist   *)
(* still holds the handlers every cleanup not yet run was registered    *)
(* with: no catch or condition-case is taken off handlerlist before     *)
(* the cleanups registered inside it have run.                          *)
C37_NotPoppedEarly ==
    pc = "unwind"
    => \A j \in 1..Len(dynstack) :
          IsCleanup(dynstack[j]) => IsSuffix(dynstack[j].hl, handlerlist)

(* C37, step by step.  During an unwind handlerlist changes only when   *)
(* set_handlerlist, registered by the catch or condition-case being     *)
(* crossed, runs, and it then loses handlers from its head.             *)
C37_PoppedStepByStep ==
    [][(pc = "unwind" /\ handlerlist' # handlerlist)
       => /\ Top(dynstack).fn = "set_handlerlist"
          /\ dynstack' = Pop(dynstack)
          /\ handlerlist' # handlerlist
          /\ IsSuffix(handlerlist', handlerlist)]_vars

(* C37.  While a throw or signal unwinds the stack, each unwind-protect *)
(* cleanup runs with the handler stack that was in effect when the      *)
(* cleanup was registered: handlerlist is popped step by step as the    *)
(* unwind crosses each catch or condition-case, never before the        *)
(* cleanups registered inside that catch or condition-case have run.    *)
C37_HandlersDuringUnwind ==
    /\ C37_CleanupSeesItsHandlers
    /\ []C37_NotPoppedEarly
    /\ C37_PoppedStepByStep

(* An unwind has just run a cleanup that was registered inside a catch  *)
(* or condition-case it has yet to cross on the way to its target, and  *)
(* further cleanups wait below.                                         *)
C37_Witness ==
    /\ pc = "unwind"
    /\ ev.op = "cleanup"
    /\ ev.b = "unwind"
    /\ handlerlist # <<>>
    /\ handlerlist[1].ptag # target
    /\ \E j \in 1..Len(dynstack) : IsCleanup(dynstack[j])

(* ------------------------------------------------------------------ *)
(* C38                                                                  *)
(* ------------------------------------------------------------------ *)
(* The load of Fautoload_do_load has run to completion, its unwind      *)
(* handlers have run, and the function called is still the autoload     *)
(* object.                                                              *)
AutoloadFailsToDefine ==
    /\ pc = "end"
    /\ dynstack # <<>>
    /\ Top(dynstack).k = "frame"
    /\ Top(dynstack).fn = "autoload"
    /\ symbol_function[FnNames[Top(dynstack).gi]] = AutoloadObject

(* C38, the error.  A load that completes without defining the function *)
(* signals Autoloading failed to define function.                       *)
C38_FailureSignaled ==
    [][AutoloadFailsToDefine
       => /\ pc' # "run"
          /\ ev'.sigs # <<>>
          /\ ev'.sigs[1].car = "error"
          /\ ev'.sigs[1].org = "autoload"
          /\ result' = result]_vars

(* C38, the undoing.  The function cells and Vfeatures then hold what   *)
(* they held before the load.                                           *)
C38_FailureUndone ==
    [][AutoloadFailsToDefine
       => /\ symbol_function' = Top(dynstack).snap.fns
          /\ Vfeatures' = Top(dynstack).snap.features]_vars

(* C38.  If an autoload's file loads to completion but fails to define  *)
(* the function being called, this counts as an autoload error:         *)
(* Autoloading failed to define function is signaled and the function   *)
(* definitions and provide calls made by that load are undone.          *)
C38_FailureToDefine == C38_FailureSignaled /\ C38_FailureUndone

(* What the code does: the error is signaled and every definition and   *)
(* provide of the load stays.                                           *)
C38_FailureKeepsDefinitions ==
    /\ C38_FailureSignaled
    /\ [][AutoloadFailsToDefine
          => /\ symbol_function' = symbol_function
             /\ Vfeatures' = Vfeatures]_vars

(* ------------------------------------------------------------------ *)
(* C39                                                                  *)
(* ------------------------------------------------------------------ *)
(* The places on the dynamic stack of the handler bodies of             *)
(* condition-case clauses that are running.                             *)
HandlerBodies ==
    {j \in 1..Len(dynstack) : /\ dynstack[j].k = "frame"
                              /\ dynstack[j].fn = "handler"
                              /\ dynstack[j].hl # <<>>}

(* h is a handler of the condition-case whose clause runs at place j.   *)
SiblingOf(h, j) == h.cc # 0 /\ h.cc = dynstack[j].hl[1].cc

(* C39, the handler stack.  While the handler body of a clause runs no  *)
(* handler of its condition-case is on handlerlist.                     *)
C39_NoSiblingOnHandlerlist ==
    \A j \in HandlerBodies :
       \A i \in 1..Len(handlerlist) : ~SiblingOf(handlerlist[i], j)

(* C39, the signal.  A signal raised in the handler body of a clause    *)
(* does not unwind to a clause of the same condition-case.              *)
C39_SignalLeavesConditionCase ==
    (/\ pc = "run"
     /\ HandlerBodies # {}
     /\ ev'.op = "signal"
     /\ pc' = "unwind")
    => \A j \in HandlerBodies :
          \A i \in 1..Len(handlerlist) :
             handlerlist[i].ptag = target' => ~SiblingOf(handlerlist[i], j)

(* C39.  A signal raised while the handler body of one clause of a      *)
(* condition-case is running is never handled by another clause of      *)
(* that same condition-case: when the handler body runs none of that    *)
(* condition-case's handlers is on handlerlist, and the signal          *)
(* propagates only to handlers established outside the condition-case.  *)
C39_HandlerBodyOutsideClauses ==
    /\ []C39_NoSiblingOnHandlerlist
    /\ [][C39_SignalLeavesConditionCase]_vars

(* What the code does: while the handler body of a clause runs, the     *)
(* clause itself and the clauses declared before it are off             *)
(* handlerlist; the clauses declared after it are still on it.          *)
C39_EarlierClausesOff ==
    \A j \in HandlerBodies :
       \A i \in 1..Len(handlerlist) :
          SiblingOf(handlerlist[i], j)
          => handlerlist[i].ci > dynstack[j].hl[1].ci

(* ------------------------------------------------------------------ *)
(* C40                                                                  *)
(* ------------------------------------------------------------------ *)
(* A call of defvaralias has just signaled an error.                    *)
DefvaraliasFails ==
    /\ ncalls' = ncalls + 1
    /\ ev'.op = "defvaralias"
    /\ ev'.b # ""

(* No symbol's value, redirection or flag changes in this step.         *)
SymbolsKept ==
    /\ symval' = symval
    /\ redirect' = redirect
    /\ alias' = alias
    /\ constant' = constant
    /\ blv' = blv
    /\ cells' = cells
    /\ buffers' = buffers
    /\ buffer_defaults' = buffer_defaults

(* C40.  A defvaralias call that fails (NEW-ALIAS is constant,          *)
(* forwarded, localized, or currently let-bound) leaves every symbol's  *)
(* value, redirection mode and flags exactly as they were before the    *)
(* call, including the value of BASE-VARIABLE when BASE-VARIABLE was    *)
(* unbound.                                                             *)
C40_FailedDefvaraliasKeepsAll ==
    [][DefvaraliasFails => SymbolsKept]_vars

(* C40 for the failures found before the base variable is looked at,    *)
(* and for a let-bound NEW-ALIAS when no value is copied: NEW-ALIAS is   *)
(* constant, forwarded or localized, or BASE-VARIABLE is bound, or      *)
(* NEW-ALIAS is void.                                                   *)
C40_KeepsAllUnlessValueCopied ==
    [][\A i \in AliasInputs :
          (/\ DefvaraliasFails
           /\ ev'.a = i[1]
           /\ \/ constant[i[1]]
              \/ redirect[i[1]] \in {"FORWARDED", "LOCALIZED"}
              \/ Fboundp(Store(symval, redirect), i[2]).val
              \/ find_symbol_value(Store(symval, redirect), i[1]).val
                   = Qunbound)
          => SymbolsKept]_vars

====
